---- MODULE Spec2Model ----
(***************************************************************************)
(* HID-IO core, host side: the mailbox router (src/src/mailbox.rs) and the *)
(* endpoint controller (src/src/device/mod.rs).                            *)
(*                                                                         *)
(* Part A  the uid registry of the mailbox (nodes, last_uid, lookup)       *)
(* Part B  the broadcast bus, its publishers and ack_wait                  *)
(* Part C  HidIoController::process over one transport                     *)
(*                                                                         *)
(* HID-IO firmware side: the C interface of the kiibohd firmware           *)
(* (src/hid-io-kiibohd/src/lib.rs).                                        *)
(*                                                                         *)
(* Part D  INTF, its byte-chunk buffers and the command interface          *)
(* Part E  assign_uid called from two clones of the mailbox                *)
(***************************************************************************)
EXTENDS Integers, Sequences, FiniteSets, TLC

VARIABLES
    \* ---- Part A: Mailbox (mailbox.rs:80-85) and the caller's history
    nodes,      \* Vec<Endpoint>: sequence of [uid, path]
    last_uid,   \* u64, last uid created
    lookup,     \* HashMap<String, Vec<u64>>: function key -> sequence of uids
    pending,    \* endpoint a successful assign_uid was made for, not yet registered
    ret,        \* the last call and what it returned
    returned,   \* history: every uid assign_uid has returned with Ok
    lastReg,    \* history: (key, path) -> uid of its most recent registration, 0 if none
    scen,       \* history: how much of the UID-reuse scenario the history is, -1 once off it
    scenRes,    \* history: what the scenario's assign_uid calls returned
    \* ---- Part B: the broadcast channel behind Mailbox::sender, and one ack_wait call
    bus,        \* the messages the channel retains: those some receiver has not read yet
    aw,         \* the ack_wait call: its arguments, its receiver and its result
    \* ---- Part C: HidIoController (device/mod.rs:122-129) and its transport
    status,     \* "running", or how the controller ended
    received,   \* HidIoPacketBuffer: the reassembly buffer
    receiver,   \* broadcast::Receiver: how many of the last messages of bus are unread
    elapsed,    \* last_sync.elapsed().as_secs(), saturating at SyncSecs
    wire,       \* the chunks the last step wrote to the transport, in order
    pubs,       \* the messages the last step of the controller published
    log,        \* what the last step of the controller did, in the order it did it
    \* ---- another subscriber of the bus (an API consumer)
    api,        \* its receiver: [on, unread]
    held,       \* the message it received last and may reply to
    closed,     \* the channel is closed: its last Sender was dropped. The controller and
                \* the caller of ack_wait each hold one (Mailbox::sender), so it stays FALSE
                \* while either exists
    senders,    \* the Mailbox values (each holds a Sender) outside the controller
    \* ---- Part D: static mut INTF (lib.rs:49-51) and the CommandInterface in it
    intf,               \* INTF is Some
    rx_bytebuf,         \* buffer::Buffer<RX, N>: the chunks hidio_rx_bytes accepted
    rx_packetbuf,       \* HidIoPacketBuffer: the reassembly buffer
    tx_bytebuf,         \* buffer::Buffer<TX, N>: the chunks waiting for hidio_tx_bytes
    hostinfo,           \* HidioHostInfo
    os_version,         \* String<U256>
    host_software_name, \* String<U256>
    fw_ret,             \* the last call of the C interface and what it returned
    fw_log,             \* what the last call did to chunks and packets, in order
    \* ---- Part E: two callers of assign_uid, each with a clone of the Mailbox
    calls,              \* caller -> [pc, key, path, uid, res]
    \* ---- Part F: the tasks that call the Mailbox operations, and its three RwLocks
    threads,    \* per task: the operation it is in, where it stands, and its locals
    locks       \* per lock: the task with the write guard (0: none), the tasks with read guards

uidVars == <<nodes, last_uid, lookup, pending, ret, returned, lastReg, scen, scenRes>>
busVars == <<bus, aw, api, held, closed, senders>>
ctlVars == <<status, received, receiver, elapsed, wire, pubs, log>>
fwVars == <<intf, rx_bytebuf, rx_packetbuf, tx_bytebuf, hostinfo, os_version,
            host_software_name, fw_ret, fw_log>>
lockVars == <<calls, threads, locks>>

vars == <<nodes, last_uid, lookup, pending, ret, returned, lastReg, scen, scenRes,
          bus, aw, api, held, closed, senders,
          status, received, receiver, elapsed, wire, pubs, log,
          intf, rx_bytebuf, rx_packetbuf, tx_bytebuf, hostinfo, os_version,
          host_software_name, fw_ret, fw_log, calls, threads, locks>>

----------------------------------------------------------------------------
\* Bounds of the model

\* Bound of Part F: most endpoints registered at a time, longest lookup entry
\* add_uid is called for, and the last_uid up to which assign_uid makes a new uid
MaxGrain == 2

\* Largest uid the registry hands out (guards the increment of last_uid)
MaxUid == 3

\* Most messages the channel holds unread (guards the publishers)
MaxBus == 3

\* Most messages the controller is let fall behind by
MaxPending == 2

\* Longest payload the reassembly buffer takes (max_payload)
MaxPayload == 2

\* Largest max_sync_packets ack_wait is called with
MaxSyncs == 2

\* Negotiated chunk length of the modelled endpoint
MaxPacketLen == 4

\* Most Mailbox values held outside the controller (guards the clone)
MaxClones == 2

\* Most chunks the firmware's rx buffer is let hold before it is processed, where
\* the buffer is not filled up
MaxRxPending == 2

\* Most chunks the firmware's tx buffer is let hold before a further packet is
\* sent, where the buffer is not filled up
MaxTxPending == 2

Keys == {"kbd", "mouse"}
Paths == {"/A", "/B"}

----------------------------------------------------------------------------
\* Part A: uid registry

NoEndpoint == [key |-> "", uid |-> 0, path |-> ""]
NoCall == [op |-> "none", key |-> "", path |-> "", ok |-> FALSE, uid |-> 0]

Some(u) == [some |-> TRUE, uid |-> u]
None == [some |-> FALSE, uid |-> 0]

\* lookup.entry(key).or_default(): the map with an empty entry added for a new key
entry_or_default(lk, key) ==
    IF key \in DOMAIN lk THEN lk ELSE (key :> <<>>) @@ lk

\* The first node of nds (in Vec order) whose uid is u, 0 if there is none
RECURSIVE first_node(_, _, _)
first_node(nds, u, j) ==
    IF j > Len(nds) THEN 0
    ELSE IF nds[j].uid = u THEN j
    ELSE first_node(nds, u, j + 1)

\* The 'outer loop of get_uid from position i of the key's lookup entry
RECURSIVE get_uid_from(_, _, _, _)
get_uid_from(ent, nds, path, i) ==
    IF i > Len(ent) THEN None
    ELSE LET j == first_node(nds, ent[i], 1) IN
         IF j = 0 THEN Some(ent[i])
         ELSE IF nds[j].path = path THEN Some(0)
         ELSE get_uid_from(ent, nds, path, i + 1)

\* get_uid without the "Id is not being used" return: a released uid is never found
RECURSIVE get_uid_no_reuse_from(_, _, _, _)
get_uid_no_reuse_from(ent, nds, path, i) ==
    IF i > Len(ent) THEN None
    ELSE LET j == first_node(nds, ent[i], 1) IN
         IF j # 0 /\ nds[j].path = path THEN Some(0)
         ELSE get_uid_no_reuse_from(ent, nds, path, i + 1)

get_uid_no_reuse(lk, nds, key, path) ==
    get_uid_no_reuse_from(entry_or_default(lk, key)[key], nds, path, 1)

\* get_uid without the scan of nodes: the first uid of the entry, live or not
get_uid_live_blind(lk, nds, key, path) ==
    LET ent == entry_or_default(lk, key)[key] IN
    IF ent = <<>> THEN None ELSE Some(ent[1])

\* Mailbox::get_uid: the value returned (lookup gets the key's entry as a side effect)
get_uid(lk, nds, key, path) ==
    get_uid_from(entry_or_default(lk, key)[key], nds, path, 1)

\* Mailbox::add_uid
add_uid(lk, key, uid) ==
    LET l == entry_or_default(lk, key) IN
    [l EXCEPT ![key] = Append(@, uid)]

\* The scenario of the UID-reuse example, as the calls of a history
Scenario ==
    << [op |-> "assign_uid", key |-> "kbd", path |-> "/A", uid |-> 0],
       [op |-> "register_node", key |-> "kbd", path |-> "/A", uid |-> 1],
       [op |-> "unregister_node", key |-> "", path |-> "", uid |-> 1],
       [op |-> "assign_uid", key |-> "kbd", path |-> "/A", uid |-> 0],
       [op |-> "register_node", key |-> "kbd", path |-> "/A", uid |-> 1],
       [op |-> "assign_uid", key |-> "kbd", path |-> "/B", uid |-> 0] >>

\* The history variable scen after the call c
scen_step(c) ==
    IF scen >= 0 /\ scen < Len(Scenario) /\ Scenario[scen + 1] = c
    THEN scen + 1 ELSE -1

assign_fresh_no_increment(key, path) ==
    /\ last_uid < MaxUid
    /\ last_uid' = last_uid
    /\ lookup' = add_uid(lookup, key, last_uid)
    /\ pending' = [key |-> key, uid |-> last_uid, path |-> path]
    /\ ret' = [op |-> "assign_uid", key |-> key, path |-> path, ok |-> TRUE, uid |-> last_uid]
    /\ returned' = returned \cup {last_uid}
    /\ scenRes' = IF scen_step([op |-> "assign_uid", key |-> key, path |-> path, uid |-> 0]) > 0
                  THEN Append(scenRes, last_uid) ELSE scenRes

\* The None arm of assign_uid: a fresh uid
assign_fresh(key, path) ==
    /\ last_uid < MaxUid
    /\ last_uid' = last_uid + 1
    /\ lookup' = add_uid(lookup, key, last_uid + 1)
    /\ pending' = [key |-> key, uid |-> last_uid + 1, path |-> path]
    /\ ret' = [op |-> "assign_uid", key |-> key, path |-> path, ok |-> TRUE, uid |-> last_uid + 1]
    /\ returned' = returned \cup {last_uid + 1}
    /\ scenRes' = IF scen_step([op |-> "assign_uid", key |-> key, path |-> path, uid |-> 0]) > 0
                  THEN Append(scenRes, last_uid + 1) ELSE scenRes

\* Mailbox::assign_uid(key, path). The caller registers the endpoint of a
\* successful call before it asks for the next uid.
assign_uid(key, path) ==
    /\ pending = NoEndpoint
    /\ LET r == get_uid(lookup, nodes, key, path) IN
       \/ /\ r = Some(0)
          /\ lookup' = entry_or_default(lookup, key)
          /\ ret' = [op |-> "assign_uid", key |-> key, path |-> path, ok |-> FALSE, uid |-> 0]
          /\ UNCHANGED <<last_uid, pending, returned, scenRes>>
       \/ /\ r.some /\ r.uid # 0
          /\ lookup' = entry_or_default(lookup, key)
          /\ pending' = [key |-> key, uid |-> r.uid, path |-> path]
          /\ ret' = [op |-> "assign_uid", key |-> key, path |-> path, ok |-> TRUE, uid |-> r.uid]
          /\ returned' = returned \cup {r.uid}
          /\ scenRes' = IF scen_step([op |-> "assign_uid", key |-> key, path |-> path, uid |-> 0]) > 0
                        THEN Append(scenRes, r.uid) ELSE scenRes
          /\ UNCHANGED last_uid
       \/ /\ r = None
          /\ assign_fresh(key, path)
    /\ scen' = scen_step([op |-> "assign_uid", key |-> key, path |-> path, uid |-> 0])
    /\ UNCHANGED <<nodes, lastReg, busVars, ctlVars, fwVars, lockVars>>

\* Mailbox::register_node(endpoint), called with the endpoint assign_uid was made for
register_node(endpoint) ==
    /\ pending # NoEndpoint
    /\ endpoint = pending
    /\ nodes' = Append(nodes, [uid |-> endpoint.uid, path |-> endpoint.path])
    /\ pending' = NoEndpoint
    /\ lastReg' = [lastReg EXCEPT ![<<endpoint.key, endpoint.path>>] = endpoint.uid]
    /\ ret' = [op |-> "register_node", key |-> endpoint.key, path |-> endpoint.path,
               ok |-> TRUE, uid |-> endpoint.uid]
    /\ scen' = scen_step([op |-> "register_node", key |-> endpoint.key,
                          path |-> endpoint.path, uid |-> endpoint.uid])
    /\ UNCHANGED <<last_uid, lookup, returned, scenRes, busVars, ctlVars, fwVars, lockVars>>

\* Mailbox::unregister_node(uid): keeps the nodes whose uid differs
unregister_node(uid) ==
    /\ nodes' = SelectSeq(nodes, LAMBDA dev: dev.uid # uid)
    /\ ret' = [op |-> "unregister_node", key |-> "", path |-> "", ok |-> TRUE, uid |-> uid]
    /\ scen' = scen_step([op |-> "unregister_node", key |-> "", path |-> "", uid |-> uid])
    /\ UNCHANGED <<last_uid, lookup, pending, returned, lastReg, scenRes, busVars, ctlVars, fwVars, lockVars>>

\* Mailbox::new
InitUid ==
    /\ nodes = <<>>
    /\ last_uid = 0
    /\ lookup = <<>>
    /\ pending = NoEndpoint
    /\ ret = NoCall
    /\ returned = {}
    /\ lastReg = [kp \in Keys \X Paths |-> 0]
    /\ scen = 0
    /\ scenRes = <<>>


----------------------------------------------------------------------------
\* Part B: addresses, packets, messages and the broadcast channel

\* Address (mailbox.rs:30-58)
All == [tag |-> "All", uid |-> 0, sid |-> 0]
ApiCapnp(u) == [tag |-> "ApiCapnp", uid |-> u, sid |-> 0]
CancelSubscription(u, sd) == [tag |-> "CancelSubscription", uid |-> u, sid |-> sd]
DeviceHidio(u) == [tag |-> "DeviceHidio", uid |-> u, sid |-> 0]
DeviceHid(u) == [tag |-> "DeviceHid", uid |-> u, sid |-> 0]
DropSubscription == [tag |-> "DropSubscription", uid |-> 0, sid |-> 0]
Module == [tag |-> "Module", uid |-> 0, sid |-> 0]

\* HidIoPacketType
PacketTypes == {"Data", "ACK", "NAK", "Sync", "Continued", "NAData", "NAContinued"}

\* HidIoPacketBuffer { ptype, id, max_len, data, done }
Packet(ptype, id, max_len, data, done) ==
    [ptype |-> ptype, id |-> id, max_len |-> max_len, data |-> data, done |-> done]

\* HidIoPacketBuffer::new() and ::default(): the freshly constructed buffer
HidIoPacketBuffer_new == Packet("Data", 0, 0, <<>>, FALSE)

\* Message::new
Message(src, dst, data) == [src |-> src, dst |-> dst, data |-> data]

NoMsg == Message(Module, Module, HidIoPacketBuffer_new)

\* max_len of the packets the convenience functions build ("Defaults")
DefaultMaxLen == 64

\* The command ids of the model: SupportedIds (0x00) and FlashMode (0x16)
Ids == {0, 22}

\* uid of the modelled controller, and of another device
self_uid == 1
OtherUid == 2

\* The channel has a receiver: the controller's, or that of a waiting ack_wait.
\* broadcast::Sender::send fails, and drops the message, when there is none.
HasReceiver == status = "running" \/ aw.pc = "waiting" \/ api.on

\* The receivers after n more messages were sent
aw_sent(a, n) == IF a.pc = "waiting" THEN [a EXCEPT !.unread = @ + n] ELSE a
api_sent(r, n) == IF r.on THEN [r EXCEPT !.unread = @ + n] ELSE r

Max(a, b) == IF a >= b THEN a ELSE b
Min(a, b) == IF a <= b THEN a ELSE b

\* The last k messages of b: what the channel retains when the slowest receiver
\* has k unread messages (all of b for a receiver that has fallen behind it)
Retain(b, k) == SubSeq(b, Max(Len(b) - k, 0) + 1, Len(b))

\* The unread messages of the slowest of the receivers other than the controller
others_unread(a, r) == Max(a.unread, r.unread)

\* broadcast::Sender::send(m) by a publisher other than the controller
sender_send(m) ==
    /\ status # "exit"
    /\ ~closed
    /\ Len(bus) < MaxBus
    /\ IF HasReceiver
       THEN /\ bus' = Append(bus, m)
            /\ receiver' = IF status = "running" THEN receiver + 1 ELSE receiver
            /\ aw' = aw_sent(aw, 1)
            /\ api' = api_sent(api, 1)
       ELSE UNCHANGED <<bus, receiver, aw, api>>
    /\ wire' = <<>>
    /\ pubs' = <<>>
    /\ log' = <<>>
    /\ UNCHANGED <<status, received, elapsed, held, closed, senders, uidVars, fwVars, lockVars>>

\* A receiver with n unread messages after one more message went into a full
\* channel: at MaxBus + 1 it has fallen behind and its next read reports Lagged
lag_count(n) == Min(n + 1, MaxBus + 1)

\* broadcast::Sender::send(m) into a channel whose slots are all taken (the
\* slots of the model: MaxBus): the oldest message is overwritten
sender_send_over(m) ==
    /\ status # "exit"
    /\ ~closed
    /\ Len(bus) = MaxBus
    /\ bus' = Append(Tail(bus), m)
    /\ receiver' = IF status = "running" THEN lag_count(receiver) ELSE receiver
    /\ aw' = IF aw.pc = "waiting" THEN [aw EXCEPT !.unread = lag_count(@)] ELSE aw
    /\ api' = IF api.on THEN [api EXCEPT !.unread = lag_count(@)] ELSE api
    /\ wire' = <<>>
    /\ pubs' = <<>>
    /\ log' = <<>>
    /\ UNCHANGED <<status, received, elapsed, held, closed, senders, uidVars, fwVars, lockVars>>

\* Mailbox::send_command
send_command(src, dst, id, data) ==
    sender_send(Message(src, dst, Packet("Data", id, DefaultMaxLen, data, TRUE)))

\* Mailbox::drop_subscriber
drop_subscriber(u, sd) ==
    sender_send(Message(DropSubscription, CancelSubscription(u, sd), HidIoPacketBuffer_new))

\* Message::send_ack
Message_send_ack(self, data) ==
    sender_send(Message(self.dst, self.src, Packet("ACK", self.data.id, DefaultMaxLen, data, TRUE)))

\* Message::send_nak
Message_send_nak(self, data) ==
    sender_send(Message(self.dst, self.src, Packet("NAK", self.data.id, DefaultMaxLen, data, TRUE)))

\* ---- ack_wait

AwIdle == [pc |-> "idle", src |-> Module, id |-> 0, max_sync_packets |-> 0,
           unread |-> 0, result |-> "none", msg |-> NoMsg,
           n |-> 0, sub |-> 0, read |-> 0, retLen |-> 0]

\* ack_wait with a receiver that starts at the oldest message the channel retains
ack_wait_replay(src, id, max_sync_packets) ==
    /\ status # "exit"
    /\ aw.pc = "idle"
    /\ aw' = [pc |-> "waiting", src |-> src, id |-> id,
              max_sync_packets |-> max_sync_packets, unread |-> Len(bus),
              result |-> "none", msg |-> NoMsg,
              n |-> max_sync_packets, sub |-> Len(bus), read |-> 0, retLen |-> 0]
    /\ wire' = <<>>
    /\ pubs' = <<>>
    /\ log' = <<>>
    /\ UNCHANGED <<bus, api, status, received, receiver, elapsed, held, closed, senders,
                   uidVars, fwVars, lockVars>>

\* ack_wait up to the creation of its stream: subscribe. History: n the budget it
\* was called with, sub the channel's length then, read the number of messages
\* its stream has yielded (counted up to MaxBus), retLen the channel's length when
\* it returned
ack_wait(src, id, max_sync_packets) ==
    /\ status # "exit"
    /\ aw.pc = "idle"
    /\ aw' = [pc |-> "waiting", src |-> src, id |-> id,
              max_sync_packets |-> max_sync_packets, unread |-> 0,
              result |-> "none", msg |-> NoMsg,
              n |-> max_sync_packets, sub |-> Len(bus), read |-> 0, retLen |-> 0]
    /\ wire' = <<>>
    /\ pubs' = <<>>
    /\ log' = <<>>
    /\ UNCHANGED <<bus, api, status, received, receiver, elapsed, held, closed, senders,
                   uidVars, fwVars, lockVars>>

\* ack_wait_match with the filter on the source alone
ack_wait_any_id(a, msg) ==
    IF ~(msg.src = a.src) THEN a
    ELSE IF msg.data.ptype = "Sync" THEN
        IF a.max_sync_packets = 0
        THEN [a EXCEPT !.pc = "done", !.result = "TooManySyncs"]
        ELSE [a EXCEPT !.max_sync_packets = @ - 1]
    ELSE IF msg.data.ptype = "ACK" THEN
        [a EXCEPT !.pc = "done", !.result = "Ok", !.msg = msg]
    ELSE IF msg.data.ptype = "NAK" THEN
        [a EXCEPT !.pc = "done", !.result = "NAKReceived", !.msg = msg]
    ELSE a

\* ack_wait_match returning on the Sync that uses up the budget
ack_wait_eager(a, msg) ==
    IF ~(msg.src = a.src /\ msg.data.id = a.id) THEN a
    ELSE IF msg.data.ptype = "Sync" THEN
        IF a.max_sync_packets <= 1
        THEN [a EXCEPT !.pc = "done", !.result = "TooManySyncs"]
        ELSE [a EXCEPT !.max_sync_packets = @ - 1]
    ELSE IF msg.data.ptype = "ACK" THEN
        [a EXCEPT !.pc = "done", !.result = "Ok", !.msg = msg]
    ELSE IF msg.data.ptype = "NAK" THEN
        [a EXCEPT !.pc = "done", !.result = "NAKReceived", !.msg = msg]
    ELSE a

\* The filter and the match of ack_wait's loop on one message of the stream
ack_wait_match(a, msg) ==
    IF ~(msg.src = a.src /\ msg.data.id = a.id) THEN a
    ELSE IF msg.data.ptype = "Sync" THEN
        IF a.max_sync_packets = 0
        THEN [a EXCEPT !.pc = "done", !.result = "TooManySyncs"]
        ELSE [a EXCEPT !.max_sync_packets = @ - 1]
    ELSE IF msg.data.ptype = "ACK" THEN
        [a EXCEPT !.pc = "done", !.result = "Ok", !.msg = msg]
    ELSE IF msg.data.ptype = "NAK" THEN
        [a EXCEPT !.pc = "done", !.result = "NAKReceived", !.msg = msg]
    ELSE a

\* One turn of ack_wait's loop: stream.next() yields the oldest unread message
ack_wait_next ==
    /\ status # "exit"
    /\ aw.pc = "waiting"
    /\ aw.unread > 0
    /\ LET lagged == aw.unread > Len(bus)
           msg == IF lagged THEN NoMsg ELSE bus[Len(bus) - aw.unread + 1]
           a1 == ack_wait_match([aw EXCEPT !.unread = @ - 1,
                                           !.read = Min(@ + 1, MaxBus)], msg)
           a2 == IF lagged
                 \* Err(Lagged): filter(Result::is_ok) drops it
                 THEN [aw EXCEPT !.unread = Len(bus)]
                 ELSE IF a1.pc = "done"
                 THEN [a1 EXCEPT !.unread = 0, !.retLen = Len(bus)]
                 ELSE a1
       IN /\ aw' = a2
          /\ bus' = Retain(bus, Max(receiver, others_unread(a2, api)))
    /\ wire' = <<>>
    /\ pubs' = <<>>
    /\ log' = <<>>
    /\ UNCHANGED <<api, status, received, receiver, elapsed, held, closed, senders,
                   uidVars, fwVars, lockVars>>

\* ack_wait's loop ends: stream.next() yields None on the closed channel
ack_wait_closed ==
    /\ status # "exit"
    /\ aw.pc = "waiting"
    /\ aw.unread = 0
    /\ closed
    /\ aw' = [aw EXCEPT !.pc = "done", !.result = "Invalid", !.retLen = Len(bus)]
    /\ wire' = <<>>
    /\ pubs' = <<>>
    /\ log' = <<>>
    /\ UNCHANGED <<bus, api, status, received, receiver, elapsed, held, closed, senders,
                   uidVars, fwVars, lockVars>>

\* ---- an API consumer: a subscriber that replies to what it receives

\* Mailbox::sender.subscribe() of the consumer
api_subscribe ==
    /\ status # "exit"
    /\ ~api.on
    /\ api' = [on |-> TRUE, unread |-> 0]
    /\ wire' = <<>>
    /\ pubs' = <<>>
    /\ log' = <<>>
    /\ UNCHANGED <<bus, aw, held, status, received, receiver, elapsed, closed, senders,
                   uidVars, fwVars, lockVars>>

\* The consumer's receiver yields its oldest unread message
api_recv ==
    /\ status # "exit"
    /\ api.on
    /\ api.unread > 0
    /\ held' = bus[Len(bus) - api.unread + 1]
    /\ api' = [api EXCEPT !.unread = @ - 1]
    /\ bus' = Retain(bus, Max(receiver, others_unread(aw, api')))
    /\ wire' = <<>>
    /\ pubs' = <<>>
    /\ log' = <<>>
    /\ UNCHANGED <<aw, status, received, receiver, elapsed, closed, senders,
                   uidVars, fwVars, lockVars>>

InitBus ==
    /\ bus = <<>>
    /\ aw = AwIdle
    /\ api = [on |-> FALSE, unread |-> 0]
    /\ held = NoMsg
    /\ closed = FALSE
    /\ senders = 1

----------------------------------------------------------------------------
\* Part C: the endpoint controller

\* Seconds without inbound traffic after which process() emits a Sync beacon
SyncSecs == 5

\* HidIoEndpoint::max_packet_len of the modelled endpoint
max_packet_len == MaxPacketLen

\* HidIoEndpoint::create_buffer
create_buffer == [HidIoPacketBuffer_new EXCEPT !.max_len = max_packet_len]

\* A chunk on the transport, by its fields: [ptype, id, cont, data]
Chunk(ptype, id, cont, data) == [ptype |-> ptype, id |-> id, cont |-> cont, data |-> data]

\* The chunks the peer may send: a Sync, heads (a head that is continued carries
\* payload) and continuation chunks (which carry no id). Head payloads are the
\* byte 1, continuation payloads the byte 2.
Chunks ==
    {Chunk("Sync", 0, FALSE, <<>>)}
    \cup {Chunk("Data", i, FALSE, d) : i \in Ids, d \in {<<>>, <<1>>}}
    \cup {Chunk("NAData", 0, FALSE, d) : d \in {<<>>, <<1>>}}
    \cup {Chunk(t, 22, FALSE, <<>>) : t \in {"ACK", "NAK"}}
    \cup {Chunk("Data", 22, TRUE, <<1>>), Chunk("NAData", 0, TRUE, <<1>>)}
    \cup {Chunk(t, 0, c, <<2>>) : t \in {"Continued", "NAContinued"}, c \in BOOLEAN}

\* The reassembly buffer holds no packet
BufferEmpty(buf) == buf.data = <<>> /\ ~buf.done

ContinuationOf(t) == IF t = "Data" THEN "Continued"
                     ELSE IF t = "NAData" THEN "NAContinued" ELSE "none"

\* HidIoPacketBuffer::decode_packet: [ok, buf, err], buf the buffer afterwards
decode_packet(buf, c) ==
    IF c.ptype = "Sync" THEN
        [ok |-> TRUE, err |-> "",
         buf |-> [HidIoPacketBuffer_new EXCEPT !.ptype = "Sync", !.max_len = buf.max_len,
                                               !.done = TRUE]]
    ELSE IF c.ptype \in {"Continued", "NAContinued"} THEN
        IF BufferEmpty(buf) \/ buf.done THEN
            [ok |-> FALSE, err |-> "UnexpectedContinuation", buf |-> buf]
        ELSE IF ContinuationOf(buf.ptype) # c.ptype THEN
            [ok |-> FALSE, err |-> "TypeMismatch", buf |-> buf]
        ELSE IF Len(buf.data) + Len(c.data) > MaxPayload THEN
            [ok |-> FALSE, err |-> "LengthOverflow", buf |-> buf]
        ELSE
            [ok |-> TRUE, err |-> "",
             buf |-> [buf EXCEPT !.data = @ \o c.data, !.done = ~c.cont]]
    ELSE IF ~BufferEmpty(buf) THEN
        [ok |-> FALSE, err |-> "UnexpectedHead", buf |-> buf]
    ELSE IF Len(c.data) > MaxPayload THEN
        [ok |-> FALSE, err |-> "LengthOverflow", buf |-> buf]
    ELSE
        [ok |-> TRUE, err |-> "",
         buf |-> [buf EXCEPT !.ptype = c.ptype, !.id = c.id, !.data = c.data,
                             !.done = ~c.cont]]

\* Bytes of a chunk before its payload: head byte, length byte and the id (one
\* byte for the ids of the model); a continuation chunk has no id
HeadOverhead == 3
ContOverhead == 2

\* The continuation chunks of the payload rest, each with up to cap bytes
RECURSIVE cont_chunks(_, _, _)
cont_chunks(t, rest, cap) ==
    IF Len(rest) <= cap THEN <<Chunk(t, 0, FALSE, rest)>>
    ELSE <<Chunk(t, 0, TRUE, SubSeq(rest, 1, cap))>>
         \o cont_chunks(t, SubSeq(rest, cap + 1, Len(rest)), cap)

\* HidIoPacketBuffer::serialize_buffer, as the chunks of the packet
serialize_buffer(p) ==
    IF p.ptype \in {"Sync", "ACK", "NAK"} THEN <<Chunk(p.ptype, p.id, FALSE, p.data)>>
    ELSE LET hcap == Max(p.max_len - HeadOverhead, 0)
             ccap == Max(p.max_len - ContOverhead, 1)
             ct == IF p.ptype \in {"NAData", "NAContinued"} THEN "NAContinued"
                   ELSE "Continued"
         IN IF Len(p.data) <= hcap THEN <<Chunk(p.ptype, p.id, FALSE, p.data)>>
            ELSE <<Chunk(p.ptype, p.id, TRUE, SubSeq(p.data, 1, hcap))>>
                 \o cont_chunks(ct, SubSeq(p.data, hcap + 1, Len(p.data)), ccap)

\* HidIoEndpoint::send_packet: the writes to the socket, each tagged with the
\* caller (by) that sent the packet
send_packet(packet, by) ==
    LET cs == serialize_buffer(packet) IN
    [k \in 1..Len(cs) |-> [by |-> by, chunk |-> cs[k]]]

\* HidIoEndpoint::send_sync
send_sync == send_packet(Packet("Sync", 0, DefaultMaxLen, <<>>, TRUE), "send_sync")

\* HidIoEndpoint::send_ack
Endpoint_send_ack(id, data) ==
    send_packet(Packet("ACK", id, DefaultMaxLen, data, TRUE), "send_ack")

\* process(), line 203: the message is addressed to this endpoint, or to all
addressed_or_all(m) == m.dst = DeviceHidio(self_uid) \/ m.dst = All

\* process(), line 203: the message is addressed to this endpoint
addressed_here(m) == m.dst = DeviceHidio(self_uid)

\* process(), line 204: the packet of the message with the endpoint's max_len
stamped(m) == [m.data EXCEPT !.max_len = max_packet_len]

\* What the socket's read returns: Ok(0), an error, or a chunk
Reads == {[kind |-> "none"], [kind |-> "err"]}
         \cup {[kind |-> "chunk", chunk |-> c] : c \in Chunks}

\* The Ack written for every chunk read, done or not
ack_every_chunk(recv, buf) ==
    IF recv THEN Endpoint_send_ack(buf.id, <<>>) ELSE <<>>

\* process(), lines 170-172: the Ack written for a buffer that is done
ack_written(recv, buf) ==
    IF recv /\ buf.done THEN Endpoint_send_ack(buf.id, <<>>) ELSE <<>>

\* The loop over try_recv() that gives up at a Lagged report
drained_until_lag(b, unread) ==
    IF unread > Len(b) THEN <<>> ELSE Retain(b, unread)

\* process(), lines 199-220: the messages the loop over try_recv() yields for a
\* receiver with unread messages behind it. A receiver that has fallen behind the
\* channel's slots gets Lagged first, which the loop passes over, and then the
\* messages the channel still holds.
drained(b, unread) ==
    IF unread > Len(b) THEN b ELSE Retain(b, unread)

\* ---- the steps of a process() call, as events in the order they happen

NoChunk == Chunk("none", 0, FALSE, <<>>)

Event(ev, by, chunk, msg) == [ev |-> ev, by |-> by, chunk |-> chunk, msg |-> msg]

\* The writes ws (of send_packet) as events
ev_writes(ws) == [k \in 1..Len(ws) |-> Event("write", ws[k].by, ws[k].chunk, NoMsg)]

\* The messages ms as events of the kind ev
ev_msgs(ev, ms) == [k \in 1..Len(ms) |-> Event(ev, "process", NoChunk, ms[k])]

ev_read(rd) == IF rd.kind = "chunk"
               THEN <<Event("read", "recv_chunk", rd.chunk, NoMsg)>> ELSE <<>>

\* inbound_events with the publish moved before the Ack
inbound_events_publish_first(rd, acks, pub) ==
    ev_read(rd) \o ev_msgs("publish", pub) \o ev_writes(acks)

\* process(), lines 149-187: recv_chunk, then send_ack, then sender.send
inbound_events(rd, acks, pub) ==
    ev_read(rd) \o ev_writes(acks) \o ev_msgs("publish", pub)

\* outbound_events with the messages taken newest first
RECURSIVE outbound_events_newest_first(_)
outbound_events_newest_first(msgs) ==
    IF msgs = <<>> THEN <<>>
    ELSE outbound_events_newest_first(Tail(msgs))
         \o ev_msgs("pull", <<msgs[1]>>)
         \o (IF addressed_here(msgs[1])
             THEN ev_writes(send_packet(stamped(msgs[1]), "mailbox")) ELSE <<>>)

\* process(), lines 199-220: each message try_recv() yields, followed by the
\* writes of its packet when it is addressed to this endpoint
RECURSIVE outbound_events(_)
outbound_events(msgs) ==
    IF msgs = <<>> THEN <<>>
    ELSE ev_msgs("pull", <<msgs[1]>>)
         \o (IF addressed_here(msgs[1])
             THEN ev_writes(send_packet(stamped(msgs[1]), "mailbox")) ELSE <<>>)
         \o outbound_events(Tail(msgs))

\* What the events lg put on the transport: the chunks written, in order
writes_of(lg) ==
    LET ws == SelectSeq(lg, LAMBDA e : e.ev = "write") IN
    [k \in 1..Len(ws) |-> [by |-> ws[k].by, chunk |-> ws[k].chunk]]

\* The beacon test a second early
beacon_due_early(el) == el >= SyncSecs - 1

\* process(), line 189: last_sync.elapsed().as_secs() >= 5
beacon_due(el) == el >= SyncSecs

\* process(), lines 213-218: how the loop ends on what try_recv() reports once no
\* message is left, Empty (break) or Closed (return Err(BrokenPipe))
closed_result(cl) == IF cl THEN "broken_pipe" ELSE "running"

\* try_recv() reported Closed
ev_closed == <<Event("closed", "try_recv", NoChunk, NoMsg)>>

\* process(), line 215: try_recv() reports Lagged to a receiver that has fallen
\* behind the channel, once, before the messages the channel still holds
ev_lagged(b, unread) ==
    IF unread > Len(b) THEN <<Event("lagged", "try_recv", NoChunk, NoMsg)>> ELSE <<>>

\* The controller ends with st; its receiver is dropped with it
controller_ends(st, buf, el, w, p, lg) ==
    /\ status' = st
    /\ received' = buf
    /\ elapsed' = el
    /\ receiver' = 0
    /\ aw' = aw_sent(aw, Len(p))
    /\ api' = api_sent(api, Len(p))
    /\ bus' = Retain(bus \o p, others_unread(aw', api'))
    /\ wire' = w
    /\ pubs' = p
    /\ log' = lg

\* The match on received.ptype with the NAK arm alone
reset_received_nak_only(buf) ==
    IF buf.ptype = "NAK" THEN create_buffer ELSE buf

\* process(), lines 155-168: the match on received.ptype after a chunk was read;
\* the Sync and the NAK arm replace the buffer by create_buffer()
reset_received(buf) ==
    IF buf.ptype \in {"Sync", "NAK"} THEN create_buffer ELSE buf

\* HidIoController::process, with what the socket's read returns (rd) and whether
\* the socket takes the writes of this call (wok)
process(rd, wok) ==
    /\ status = "running"
    /\ LET recv == rd.kind = "chunk"
           d == IF recv THEN decode_packet(received, rd.chunk)
                ELSE [ok |-> TRUE, err |-> "", buf |-> received]
           rcv2 == IF recv THEN reset_received(d.buf) ELSE d.buf
           acks == ack_written(recv, rcv2)
           el1 == IF recv THEN 0 ELSE elapsed
           pub == IF rcv2.done THEN <<Message(DeviceHidio(self_uid), All, rcv2)>> ELSE <<>>
           rcv3 == IF rcv2.done THEN create_buffer ELSE rcv2
           bus1 == bus \o pub
           unread1 == receiver + Len(pub)
           pend == drained(bus1, unread1)
           mine == SelectSeq(pend, addressed_here)
           sync == \E k \in 1..Len(mine) : mine[k].data.ptype = "Sync"
           inb == inbound_events(rd, acks, pub)
           out == ev_lagged(bus1, unread1) \o outbound_events(pend)
       IN /\ Len(bus1) <= MaxBus
          /\ IF rd.kind = "err" THEN
                \* recv_chunk returns the socket's error
                controller_ends("io_error", received, elapsed, <<>>, <<>>, <<>>)
             ELSE IF ~d.ok THEN
                \* recv_chunk: std::process::exit(2)
                controller_ends("exit", received, elapsed, <<>>, <<>>, ev_read(rd))
             ELSE IF acks # <<>> /\ ~wok THEN
                \* send_ack: unwrap() of the failed write
                controller_ends("panic", rcv2, el1, <<>>, <<>>, ev_read(rd))
             ELSE IF beacon_due(el1) THEN
                IF ~wok THEN
                    controller_ends("broken_pipe", rcv3, el1, acks, pub, inb)
                ELSE
                    /\ wire' = writes_of(inb \o ev_writes(send_sync))
                    /\ received' = create_buffer
                    /\ elapsed' = 0
                    /\ bus' = bus1
                    /\ receiver' = unread1
                    /\ aw' = aw_sent(aw, Len(pub))
                    /\ api' = api_sent(api, Len(pub))
                    /\ pubs' = pub
                    /\ log' = inb \o ev_writes(send_sync)
                    /\ UNCHANGED status
             ELSE IF mine # <<>> /\ ~wok THEN
                \* send_packet(...)?: the error of the failed write
                controller_ends("io_error", rcv3, el1, acks, pub, inb)
             ELSE IF closed_result(closed) # "running" THEN
                \* try_recv() reports Closed once no message is left
                controller_ends(closed_result(closed),
                                IF sync THEN create_buffer ELSE rcv3, el1,
                                writes_of(inb \o out), pub, inb \o out \o ev_closed)
             ELSE
                /\ wire' = writes_of(inb \o out)
                /\ received' = IF sync THEN create_buffer ELSE rcv3
                /\ elapsed' = el1
                /\ receiver' = 0
                /\ aw' = aw_sent(aw, Len(pub))
                /\ api' = api_sent(api, Len(pub))
                /\ bus' = Retain(bus1, others_unread(aw', api'))
                /\ pubs' = pub
                /\ log' = inb \o out
                /\ UNCHANGED status
    /\ UNCHANGED <<held, closed, senders, uidVars, fwVars, lockVars>>

\* A second passes
tick ==
    /\ status = "running"
    /\ elapsed < SyncSecs
    /\ elapsed' = elapsed + 1
    /\ wire' = <<>>
    /\ pubs' = <<>>
    /\ log' = <<>>
    /\ UNCHANGED <<status, received, receiver, busVars, uidVars, fwVars, lockVars>>

\* A controller whose Sender does not live as long as it does: it holds one only
\* while messages wait in its receiver
controller_senders_while_unread == IF status = "running" /\ receiver > 0 THEN 1 ELSE 0

\* HidIoController, lines 122-129 and 137-144: the field mailbox is a Mailbox of the
\* controller's own, and with it a Sender, for as long as the controller exists
controller_senders == IF status = "running" THEN 1 ELSE 0

\* The Senders of the channel: one in each Mailbox (mailbox.rs:80-85)
SenderCount == senders + controller_senders

\* Mailbox::clone (derived, mailbox.rs:79) outside the controller
clone_mailbox ==
    /\ senders \in 1..(MaxClones - 1)
    /\ senders' = senders + 1
    /\ wire' = <<>>
    /\ pubs' = <<>>
    /\ log' = <<>>
    /\ UNCHANGED <<bus, aw, api, held, closed, status, received, receiver, elapsed,
                   uidVars, fwVars, lockVars>>

\* A Mailbox outside the controller is dropped; ack_wait borrows the one it was
\* called on, which stays
drop_mailbox ==
    /\ senders > 0
    /\ aw.pc = "waiting" => senders > 1
    /\ senders' = senders - 1
    /\ wire' = <<>>
    /\ pubs' = <<>>
    /\ log' = <<>>
    /\ UNCHANGED <<bus, aw, api, held, closed, status, received, receiver, elapsed,
                   uidVars, fwVars, lockVars>>

\* The channel closes when its last Sender is gone
channel_closes ==
    /\ ~closed
    /\ SenderCount = 0
    /\ closed' = TRUE
    /\ wire' = <<>>
    /\ pubs' = <<>>
    /\ log' = <<>>
    /\ UNCHANGED <<bus, aw, api, held, senders, status, received, receiver, elapsed,
                   uidVars, fwVars, lockVars>>

\* HidIoController::new
InitCtl ==
    /\ status = "running"
    /\ received = create_buffer
    /\ receiver = 0
    /\ elapsed = 0
    /\ wire = <<>>
    /\ pubs = <<>>
    /\ log = <<>>

----------------------------------------------------------------------------
\* Part D: the firmware's C interface

\* typenum sizes of the buffers (lib.rs:40-45)
BufChunk == 64
RxBuf == 8
TxBuf == 8

\* The ids hidio_init registers (lib.rs:201-206): SupportedIDs, GetInfo,
\* TestPacket, ManufacturingTest
FwIds == {0, 1, 2, 80}

\* h0001::Property, by its wire value
Property(code) ==
    IF code = 1 THEN "MajorVersion" ELSE IF code = 2 THEN "MinorVersion"
    ELSE IF code = 3 THEN "PatchVersion" ELSE IF code = 4 THEN "DeviceName"
    ELSE IF code = 11 THEN "OsType" ELSE IF code = 12 THEN "OsVersion"
    ELSE IF code = 13 THEN "HostSoftwareName" ELSE "Unknown"

\* A pointer to a String: the place (frame) the String is in, and its name
StrPtr(frame, name) == [frame |-> frame, name |-> name]

\* CommandInterface::new, lines 580-587: the host-info record. Its two pointers
\* are taken from the local Strings of new(), before they are moved into the
\* CommandInterface.
HostInfoNew ==
    [major_version |-> 0, minor_version |-> 0, patch_version |-> 0, os |-> 0,
     os_version |-> StrPtr("new", "os_version"),
     host_software_name |-> StrPtr("new", "host_software_name")]

\* What a call of the C interface returned: a status, and what it wrote through
\* its out pointer
FwRet(op, st, out) == [op |-> op, status |-> st, out |-> out]
NoOut == <<>>

FwEvent(ev, item) == [ev |-> ev, item |-> item]

\* An entry of a byte-chunk buffer: the first len bytes of a report that holds
\* the frame of chunk
Bytes(chunk, len) == [chunk |-> chunk, len |-> len]

\* The state of the CommandInterface a call works on
FwState ==
    [rx |-> rx_bytebuf, pbuf |-> rx_packetbuf, tx |-> tx_bytebuf, hi |-> hostinfo,
     osv |-> os_version, hsn |-> host_software_name, log |-> <<>>]

\* The CommandInterface after a call: st
fw_becomes(st) ==
    /\ rx_bytebuf' = st.rx
    /\ rx_packetbuf' = st.pbuf
    /\ tx_bytebuf' = st.tx
    /\ hostinfo' = st.hi
    /\ os_version' = st.osv
    /\ host_software_name' = st.hsn
    /\ fw_log' = st.log

\* A call that returns early: nothing of INTF is touched
fw_untouched ==
    /\ fw_log' = <<>>
    /\ UNCHANGED <<intf, rx_bytebuf, rx_packetbuf, tx_bytebuf, hostinfo, os_version,
                   host_software_name>>

\* HidIoPacketBuffer::clear
clear(buf) == [HidIoPacketBuffer_new EXCEPT !.max_len = buf.max_len]

\* hidio_init
hidio_init ==
    /\ ~intf
    /\ intf' = TRUE
    /\ fw_becomes([rx |-> <<>>, pbuf |-> HidIoPacketBuffer_new, tx |-> <<>>,
                   hi |-> HostInfoNew, osv |-> <<>>, hsn |-> <<>>, log |-> <<>>])
    /\ fw_ret' = FwRet("hidio_init", "Success", NoOut)
    /\ UNCHANGED <<uidVars, busVars, ctlVars, lockVars>>

\* hidio_rx_bytes, line 232: the largest len let through
rx_len_limit == RxBuf

\* The status of hidio_rx_bytes with an rx buffer that is never full
rx_bytes_status_unbounded(len) ==
    IF len > rx_len_limit THEN "ErrorBufSizeTooLarge"
    ELSE IF ~intf THEN "ErrorNotInitialized"
    ELSE IF len > BufChunk THEN "ErrorBufSizeTooSmall"
    ELSE "Success"

\* hidio_rx_bytes, lines 232-256: the status returned
rx_bytes_status(len) ==
    IF len > rx_len_limit THEN "ErrorBufSizeTooLarge"
    ELSE IF ~intf THEN "ErrorNotInitialized"
    ELSE IF len > BufChunk THEN "ErrorBufSizeTooSmall"
    ELSE IF Len(rx_bytebuf) >= RxBuf THEN "ErrorBufFull"
    ELSE "Success"

\* hidio_rx_bytes(bytes, len), bytes pointing at a report with the frame of chunk
hidio_rx_bytes(chunk, len) ==
    /\ LET st == rx_bytes_status(len) IN
       /\ fw_ret' = FwRet("hidio_rx_bytes", st, NoOut)
       /\ IF st = "Success"
          THEN /\ rx_bytebuf' = Append(rx_bytebuf, Bytes(chunk, len))
               /\ fw_log' = <<>>
               /\ UNCHANGED <<intf, rx_packetbuf, tx_bytebuf, hostinfo, os_version,
                              host_software_name>>
          ELSE fw_untouched
    /\ UNCHANGED <<uidVars, busVars, ctlVars, lockVars>>

\* hidio_tx_bytes, lines 267-272: the one len let through
tx_len_required == TxBuf

\* hidio_tx_bytes, lines 267-289: the status returned
tx_bytes_status(len) ==
    IF len > tx_len_required THEN "ErrorBufSizeTooLarge"
    ELSE IF len < tx_len_required THEN "ErrorBufSizeTooSmall"
    ELSE IF ~intf THEN "ErrorNotInitialized"
    ELSE IF tx_bytebuf = <<>> THEN "BufferEmpty"
    ELSE "Success"

\* hidio_tx_bytes(bytes, len): the first len bytes of the oldest chunk are copied
hidio_tx_bytes(len) ==
    /\ LET st == tx_bytes_status(len) IN
       IF st = "Success"
       THEN /\ fw_ret' = FwRet("hidio_tx_bytes", st, Bytes(Head(tx_bytebuf).chunk, len))
            /\ tx_bytebuf' = Tail(tx_bytebuf)
            /\ fw_log' = <<>>
            /\ UNCHANGED <<intf, rx_bytebuf, rx_packetbuf, hostinfo, os_version,
                           host_software_name>>
       ELSE /\ fw_ret' = FwRet("hidio_tx_bytes", st, NoOut)
            /\ fw_untouched
    /\ UNCHANGED <<uidVars, busVars, ctlVars, lockVars>>

\* A chunk in the tx buffer, with the packet it is of (pk) and its place among
\* that packet's chunks (ix)
TxChunk(chunk, pk, ix) == [chunk |-> chunk, pk |-> pk, ix |-> ix]

\* The loop of tx_packetbuffer_send with the first chunk put in front of the
\* buffer and the other ones behind it
enqueue_chunks_around(tx, new) ==
    IF new = <<>> THEN tx ELSE <<new[1]>> \o tx \o Tail(new)

\* tx_packetbuffer_send, lines 692-708: tx_bytebuf.enqueue of each chunk in turn
enqueue_chunks(tx, new) == tx \o new

\* CommandInterface::tx_packetbuffer_send: [ok, st]. The chunks that fit are
\* enqueued; TxBufferSendFailed at the first one that does not
tx_packetbuffer_send(st, buf) ==
    LET cs == serialize_buffer(buf)
        n == Min(Len(cs), TxBuf - Len(st.tx))
        new == [k \in 1..n |-> TxChunk(cs[k], buf, k)]
    IN [ok |-> n = Len(cs),
        st |-> [st EXCEPT !.tx = enqueue_chunks(@, new),
                          !.log = @ \o [k \in 1..n |-> FwEvent("enqueue", new[k])]]]

\* CommandInterface::h0001_info_ack, data the payload of the Ack: the property
\* and its value
h0001_info_ack(st, data) ==
    LET property == IF Len(data) >= 1 THEN Property(data[1]) ELSE "Unknown"
        v == IF Len(data) >= 2 THEN data[2] ELSE 0
    IN IF property = "MajorVersion" THEN
           [ok |-> TRUE, st |-> [st EXCEPT !.hi.major_version = v]]
       ELSE IF property = "MinorVersion" THEN
           [ok |-> TRUE, st |-> [st EXCEPT !.hi.minor_version = v]]
       ELSE IF property = "PatchVersion" THEN
           [ok |-> TRUE, st |-> [st EXCEPT !.hi.patch_version = v]]
       ELSE IF property = "OsType" THEN
           [ok |-> TRUE, st |-> [st EXCEPT !.hi.os = v]]
       ELSE IF property = "OsVersion" THEN
           [ok |-> TRUE, st |-> [st EXCEPT !.osv = <<v>>]]
       ELSE IF property = "HostSoftwareName" THEN
           [ok |-> TRUE, st |-> [st EXCEPT !.hsn = <<v>>]]
       ELSE [ok |-> FALSE, st |-> st]

\* CommandInterface::h0000_supported_ids_cmd: the payload of the Ack
supported_ids == <<0, 1, 2, 80>>

\* Commands::rx_message_handling for the packets the model feeds: [ok, st].
\* A packet with an id that is not registered fails; a Test request (0x02) is
\* answered with an Ack of its payload, a SupportedIds request (0x00) with the
\* ids; an Info Ack (0x01) goes to h0001_info_ack; a no-ack command and the
\* other Acks have no reply.
rx_message_handling(st, buf) ==
    LET st1 == [st EXCEPT !.log = Append(@, FwEvent("handle", buf))] IN
    IF buf.id \notin FwIds THEN [ok |-> FALSE, st |-> st1]
    ELSE IF buf.ptype = "Data" /\ buf.id = 2 THEN
        tx_packetbuffer_send(st1, Packet("ACK", 2, BufChunk, buf.data, TRUE))
    ELSE IF buf.ptype = "Data" /\ buf.id = 0 THEN
        tx_packetbuffer_send(st1, Packet("ACK", 0, BufChunk, supported_ids, TRUE))
    ELSE IF buf.ptype = "ACK" /\ buf.id = 1 THEN h0001_info_ack(st1, buf.data)
    ELSE [ok |-> TRUE, st |-> st1]

\* rx_packetbuffer_decode that hands a Sync packet on like any other packet
RECURSIVE rx_packetbuffer_decode_sync(_)
rx_packetbuffer_decode_sync(st) ==
    IF st.rx = <<>> THEN [res |-> "false", st |-> st]
    ELSE LET buf == Head(st.rx)
             d == decode_packet(st.pbuf, buf.chunk)
             st1 == [st EXCEPT !.rx = Tail(@), !.log = Append(@, FwEvent("decode", buf)),
                               !.pbuf = d.buf]
         IN IF ~d.ok THEN [res |-> "err", st |-> st1]
            ELSE IF ~d.buf.done THEN rx_packetbuffer_decode_sync(st1)
            ELSE [res |-> "true", st |-> st1]

\* CommandInterface::rx_packetbuffer_decode: [res, st], res "true", "false" or
\* "err"
RECURSIVE rx_packetbuffer_decode(_)
rx_packetbuffer_decode(st) ==
    IF st.rx = <<>> THEN [res |-> "false", st |-> st]
    ELSE LET buf == Head(st.rx)
             d == decode_packet(st.pbuf, buf.chunk)
             st1 == [st EXCEPT !.rx = Tail(@), !.log = Append(@, FwEvent("decode", buf)),
                               !.pbuf = d.buf]
         IN IF ~d.ok THEN [res |-> "err", st |-> st1]
            ELSE IF ~d.buf.done THEN rx_packetbuffer_decode(st1)
            ELSE IF d.buf.ptype = "Sync"
            THEN rx_packetbuffer_decode([st1 EXCEPT !.pbuf = clear(@)])
            ELSE [res |-> "true", st |-> st1]

\* process_rx, the ? at lines 644 and 646: the call returns the error of step
failed(st, step) == [st EXCEPT !.log = Append(@, FwEvent("error", step))]

\* process_rx, lines 649-650: the buffer is cleared and the packet counted
serviced(st, cur) == [st EXCEPT !.pbuf = clear(@), !.log = Append(@, FwEvent("serviced", cur))]

\* process_rx that reads count = 0 as "no packet"
RECURSIVE process_rx_counted(_, _, _)
process_rx_counted(st, count, cur) ==
    IF ~(cur < count) THEN [ok |-> TRUE, cur |-> cur, st |-> st]
    ELSE LET r == rx_packetbuffer_decode(st) IN
         IF r.res = "err" THEN [ok |-> FALSE, cur |-> cur, st |-> failed(r.st, "decode")]
         ELSE IF r.res = "false" THEN [ok |-> TRUE, cur |-> cur, st |-> r.st]
         ELSE LET h == rx_message_handling(r.st, r.st.pbuf) IN
              IF ~h.ok THEN [ok |-> FALSE, cur |-> cur, st |-> failed(h.st, "handle")]
              ELSE process_rx_counted(serviced(h.st, cur + 1), count, cur + 1)

\* CommandInterface::process_rx: [ok, cur, st]. cur is a u8; the rx buffer holds
\* RxBuf chunks, so it stays below RxBuf + 1
RECURSIVE process_rx(_, _, _)
process_rx(st, count, cur) ==
    IF ~(count = 0 \/ cur < count) THEN [ok |-> TRUE, cur |-> cur, st |-> st]
    ELSE LET r == rx_packetbuffer_decode(st) IN
         IF r.res = "err" THEN [ok |-> FALSE, cur |-> cur, st |-> failed(r.st, "decode")]
         ELSE IF r.res = "false" THEN [ok |-> TRUE, cur |-> cur, st |-> r.st]
         ELSE LET h == rx_message_handling(r.st, r.st.pbuf) IN
              IF ~h.ok THEN [ok |-> FALSE, cur |-> cur, st |-> failed(h.st, "handle")]
              ELSE process_rx(serviced(h.st, cur + 1), count, cur + 1)

\* hidio_rx_process(count)
hidio_rx_process(count) ==
    /\ IF ~intf
       THEN /\ fw_ret' = FwRet("hidio_rx_process", "ErrorNotInitialized", NoOut)
            /\ fw_untouched
       ELSE LET r == process_rx(FwState, count, 0) IN
            /\ fw_becomes(r.st)
            /\ fw_ret' = FwRet("hidio_rx_process",
                               IF ~r.ok THEN "ErrorDetailed"
                               ELSE IF r.cur > 0 THEN "Success" ELSE "BufferNotReady",
                               NoOut)
            /\ UNCHANGED intf
    /\ UNCHANGED <<uidVars, busVars, ctlVars, lockVars>>

\* The packets sent one after the other, up to the first that fails: [ok, st]
RECURSIVE send_each(_, _)
send_each(st, bufs) ==
    IF bufs = <<>> THEN [ok |-> TRUE, st |-> st]
    ELSE LET r == tx_packetbuffer_send(st, bufs[1]) IN
         IF ~r.ok THEN r ELSE send_each(r.st, Tail(bufs))

\* hidio_h0001_info, lines 334-341: the properties asked for, by wire value
info_properties == <<1, 2, 3, 11, 12, 13>>

\* hidio_h0001_info: one Info request (0x01) for each of the properties
hidio_h0001_info ==
    /\ IF ~intf
       THEN /\ fw_ret' = FwRet("hidio_h0001_info", "ErrorNotInitialized", NoOut)
            /\ fw_untouched
       ELSE LET r == send_each(FwState,
                       [k \in 1..Len(info_properties) |->
                           Packet("Data", 1, BufChunk, <<info_properties[k]>>, TRUE)]) IN
            /\ fw_becomes(r.st)
            /\ fw_ret' = FwRet("hidio_h0001_info",
                               IF r.ok THEN "Success" ELSE "ErrorDetailed", NoOut)
            /\ UNCHANGED intf
    /\ UNCHANGED <<uidVars, busVars, ctlVars, lockVars>>

\* h0001_info_data(info)
h0001_info_data ==
    /\ fw_ret' = IF intf THEN FwRet("h0001_info_data", "true", hostinfo)
                 ELSE FwRet("h0001_info_data", "false", NoOut)
    /\ fw_untouched
    /\ UNCHANGED <<uidVars, busVars, ctlVars, lockVars>>

\* A C string handed to the interface: its bytes, and whether they are UTF-8
CStr(utf8, bytes) == [utf8 |-> utf8, bytes |-> bytes]

\* hidio_h0017_unicodetext, hidio_h0018_unicodestate and hidio_h0034_terminalout:
\* a no-ack command with the id and the bytes of the string as payload
send_string(op, id, string) ==
    /\ IF ~intf
       THEN /\ fw_ret' = FwRet(op, "ErrorNotInitialized", NoOut)
            /\ fw_untouched
       ELSE IF ~string.utf8
       THEN /\ fw_ret' = FwRet(op, "ErrorInvalidUTF8", NoOut)
            /\ fw_untouched
       ELSE LET r == tx_packetbuffer_send(FwState,
                         Packet("NAData", id, BufChunk, string.bytes, TRUE)) IN
            /\ fw_becomes(r.st)
            /\ fw_ret' = FwRet(op, IF r.ok THEN "Success" ELSE "ErrorDetailed", NoOut)
            /\ UNCHANGED intf
    /\ UNCHANGED <<uidVars, busVars, ctlVars, lockVars>>

hidio_h0017_unicodetext(string) == send_string("hidio_h0017_unicodetext", 23, string)

hidio_h0018_unicodestate(symbols) == send_string("hidio_h0018_unicodestate", 24, symbols)

hidio_h0034_terminalout(output) == send_string("hidio_h0034_terminalout", 52, output)

\* INTF before hidio_init: None
InitFw ==
    /\ intf = FALSE
    /\ rx_bytebuf = <<>>
    /\ rx_packetbuf = HidIoPacketBuffer_new
    /\ tx_bytebuf = <<>>
    /\ hostinfo = HostInfoNew
    /\ os_version = <<>>
    /\ host_software_name = <<>>
    /\ fw_ret = FwRet("none", "none", NoOut)
    /\ fw_log = <<>>

----------------------------------------------------------------------------
\* Part E: assign_uid from two clones of the Mailbox. nodes, last_uid and lookup
\* are behind Arc<RwLock<..>> and shared by the clones; a step is what a caller
\* does while it holds one lock.

Callers == {1, 2}

\* fresh: the uid the call returned was made by it (history)
IdleCall == [pc |-> "idle", key |-> "", path |-> "", uid |-> 0, res |-> "none",
             fresh |-> FALSE]

\* A caller enters assign_uid(key, path)
uid_call(c, key, path) ==
    /\ calls[c].pc = "idle"
    /\ calls' = [calls EXCEPT ![c] = [IdleCall EXCEPT !.pc = "get_uid", !.key = key,
                                                     !.path = path]]
    /\ UNCHANGED <<uidVars, busVars, ctlVars, fwVars, threads, locks>>

\* assign_uid, line 144: get_uid, under the write lock of lookup
uid_get(c) ==
    /\ calls[c].pc = "get_uid"
    /\ LET r == get_uid(lookup, nodes, calls[c].key, calls[c].path) IN
       calls' = [calls EXCEPT ![c] =
                    IF r = Some(0) THEN [@ EXCEPT !.pc = "done", !.res = "Err"]
                    ELSE IF r.some THEN [@ EXCEPT !.pc = "done", !.res = "Ok", !.uid = r.uid]
                    ELSE [@ EXCEPT !.pc = "increment"]]
    /\ lookup' = entry_or_default(lookup, calls[c].key)
    /\ UNCHANGED <<nodes, last_uid, pending, ret, returned, lastReg, scen, scenRes,
                   busVars, ctlVars, fwVars, threads, locks>>

\* assign_uid, line 152: (*self.last_uid.write().unwrap()) += 1
uid_increment(c) ==
    /\ calls[c].pc = "increment"
    /\ last_uid < MaxUid
    /\ last_uid' = last_uid + 1
    /\ calls' = [calls EXCEPT ![c].pc = "read"]
    /\ UNCHANGED <<nodes, lookup, pending, ret, returned, lastReg, scen, scenRes,
                   busVars, ctlVars, fwVars, threads, locks>>

\* assign_uid, line 153: let uid = *self.last_uid.read().unwrap()
uid_read(c) ==
    /\ calls[c].pc = "read"
    /\ calls' = [calls EXCEPT ![c].pc = "add_uid", ![c].uid = last_uid]
    /\ UNCHANGED <<uidVars, busVars, ctlVars, fwVars, threads, locks>>

\* assign_uid, lines 156-157: add_uid under the write lock of lookup, and Ok(uid)
uid_add(c) ==
    /\ calls[c].pc = "add_uid"
    /\ lookup' = add_uid(lookup, calls[c].key, calls[c].uid)
    /\ calls' = [calls EXCEPT ![c].pc = "done", ![c].res = "Ok", ![c].fresh = TRUE]
    /\ UNCHANGED <<nodes, last_uid, pending, ret, returned, lastReg, scen, scenRes,
                   busVars, ctlVars, fwVars, threads, locks>>

InitLock == calls = [c \in Callers |-> IdleCall]

----------------------------------------------------------------------------
\* Part F: the Mailbox operations at the grain of their lock acquisitions. Each
\* task has a clone of the Mailbox; a step is an acquisition, or what the task
\* does up to the point where it drops a guard.

\* An RwLock nobody holds, and the three of the Mailbox
FreeLock == [w |-> 0, r |-> {}]
LockNames == {"nodes", "last_uid", "lookup"}

\* RwLock::write and RwLock::read return when no other guard stands in the way
can_write(l) == l.w = 0 /\ l.r = {}
can_read(l) == l.w = 0

NoLock == [lock |-> "none", mode |-> "none"]
Want(lock, mode) == [lock |-> lock, mode |-> mode]

\* The lock the task th asks for next, where it stands: lookup.write() in get_uid
\* (line 107) and add_uid (line 134), nodes.read() at the head of the inner loop
\* (line 112), last_uid.write() and .read() (lines 152, 153), nodes.write() in
\* register_node and unregister_node (lines 165, 172)
wants(th) ==
    IF th.pc \in {"get_uid", "add_uid"} THEN Want("lookup", "w")
    ELSE IF th.pc = "outer" /\ th.i <= Len(lookup[th.key]) THEN Want("nodes", "r")
    ELSE IF th.pc = "increment" THEN Want("last_uid", "w")
    ELSE IF th.pc = "read" THEN Want("last_uid", "r")
    ELSE IF th.pc \in {"register_node", "unregister_node"} THEN Want("nodes", "w")
    ELSE NoLock

\* Where the task is once it has the guard it asked for at pc
holding_pc(pc) ==
    IF pc = "get_uid" THEN "outer" ELSE IF pc = "outer" THEN "inner"
    ELSE IF pc = "increment" THEN "incrementing" ELSE IF pc = "read" THEN "reading"
    ELSE IF pc = "add_uid" THEN "adding"
    ELSE IF pc = "register_node" THEN "registering" ELSE "unregistering"

\* The locks with the guard of the request w given to the task t
acquired(lk, w, t) ==
    IF w.mode = "w" THEN [lk EXCEPT ![w.lock].w = t]
    ELSE [lk EXCEPT ![w.lock].r = @ \cup {t}]

\* The locks with the guards of the task t on the locks of names dropped
dropped(lk, names, t) ==
    [n \in LockNames |->
        IF n \in names
        THEN [w |-> IF lk[n].w = t THEN 0 ELSE lk[n].w, r |-> lk[n].r \ {t}]
        ELSE lk[n]]

\* The guards get_uid drops when its inner loop ends with all nodes seen or with
\* continue 'outer (more FALSE), or with a return (more TRUE), but keeping the
\* guard of nodes until get_uid returns
scan_drops_late(returns) == IF returns THEN {"nodes", "lookup"} ELSE {}

\* The guards get_uid drops when its inner loop ends: the guard of nodes is a
\* temporary of the loop's head (line 112) and goes with the loop; the guard of
\* lookup (line 107) goes when get_uid returns
scan_drops(returns) == IF returns THEN {"nodes", "lookup"} ELSE {"nodes"}

IdleThread == [op |-> "none", pc |-> "idle", key |-> "", path |-> "", uid |-> 0, i |-> 0]

\* A task calls one of the five operations
th_call(t, op, key, path, uid) ==
    /\ threads[t].pc = "idle"
    /\ op = "register_node" => Len(nodes) < MaxGrain
    /\ op = "add_uid" => Len(entry_or_default(lookup, key)[key]) < MaxGrain
    /\ threads' = [threads EXCEPT ![t] =
                      [op |-> op, pc |-> IF op = "assign_uid" THEN "get_uid" ELSE op,
                       key |-> key, path |-> path, uid |-> uid, i |-> 0]]
    /\ UNCHANGED <<locks, calls, uidVars, busVars, ctlVars, fwVars>>

\* The task gets the guard it asks for. get_uid then makes the key's entry
\* (line 108) and starts its outer loop
th_acquire(t) ==
    LET th == threads[t]
        w == wants(th)
    IN /\ w # NoLock
       /\ IF w.mode = "w" THEN can_write(locks[w.lock]) ELSE can_read(locks[w.lock])
       /\ th.pc = "increment" => last_uid < MaxGrain
       /\ locks' = acquired(locks, w, t)
       /\ threads' = [threads EXCEPT ![t].pc = holding_pc(th.pc),
                                     ![t].i = IF th.pc = "get_uid" THEN 1 ELSE th.i]
       /\ lookup' = IF th.pc = "get_uid" THEN entry_or_default(lookup, th.key) ELSE lookup
       /\ UNCHANGED <<nodes, last_uid, pending, ret, returned, lastReg, scen, scenRes,
                      calls, busVars, ctlVars, fwVars>>

\* Where a task goes when get_uid returned: assign_uid goes on to the increment
\* when it returned None
after_get_uid(th, none) ==
    IF th.op = "assign_uid" /\ none THEN [th EXCEPT !.pc = "increment"] ELSE IdleThread

\* get_uid, line 129: the outer loop is through, None
th_none(t) ==
    LET th == threads[t] IN
    /\ th.pc = "outer" /\ th.i > Len(lookup[th.key])
    /\ locks' = dropped(locks, {"lookup"}, t)
    /\ threads' = [threads EXCEPT ![t] = after_get_uid(th, TRUE)]
    /\ UNCHANGED <<calls, uidVars, busVars, ctlVars, fwVars>>

\* get_uid, lines 112-125: the inner loop over the clone of nodes, for the uid
\* at place i of the entry
th_scan(t) ==
    LET th == threads[t]
        r == get_uid_from(<<lookup[th.key][th.i]>>, nodes, th.path, 1)
    IN /\ th.pc = "inner"
       /\ locks' = dropped(locks, scan_drops(r.some), t)
       /\ threads' = [threads EXCEPT ![t] =
                         IF r.some THEN after_get_uid(th, FALSE)
                         ELSE [th EXCEPT !.pc = "outer", !.i = th.i + 1]]
       /\ UNCHANGED <<calls, uidVars, busVars, ctlVars, fwVars>>

\* assign_uid, line 152: the increment, and the write guard goes
th_increment(t) ==
    /\ threads[t].pc = "incrementing"
    /\ last_uid' = last_uid + 1
    /\ locks' = dropped(locks, {"last_uid"}, t)
    /\ threads' = [threads EXCEPT ![t].pc = "read"]
    /\ UNCHANGED <<nodes, lookup, pending, ret, returned, lastReg, scen, scenRes,
                   calls, busVars, ctlVars, fwVars>>

\* assign_uid, line 153: the uid is read, and the read guard goes
th_read(t) ==
    /\ threads[t].pc = "reading"
    /\ locks' = dropped(locks, {"last_uid"}, t)
    /\ threads' = [threads EXCEPT ![t].pc = "add_uid", ![t].uid = last_uid]
    /\ UNCHANGED <<calls, uidVars, busVars, ctlVars, fwVars>>

\* add_uid, lines 135-136
th_add(t) ==
    /\ threads[t].pc = "adding"
    /\ lookup' = add_uid(lookup, threads[t].key, threads[t].uid)
    /\ locks' = dropped(locks, {"lookup"}, t)
    /\ threads' = [threads EXCEPT ![t] = IdleThread]
    /\ UNCHANGED <<nodes, last_uid, pending, ret, returned, lastReg, scen, scenRes,
                   calls, busVars, ctlVars, fwVars>>

\* register_node, line 166
th_register(t) ==
    /\ threads[t].pc = "registering"
    /\ nodes' = Append(nodes, [uid |-> threads[t].uid, path |-> threads[t].path])
    /\ locks' = dropped(locks, {"nodes"}, t)
    /\ threads' = [threads EXCEPT ![t] = IdleThread]
    /\ UNCHANGED <<last_uid, lookup, pending, ret, returned, lastReg, scen, scenRes,
                   calls, busVars, ctlVars, fwVars>>

\* unregister_node, lines 173-175
th_unregister(t) ==
    /\ threads[t].pc = "unregistering"
    /\ nodes' = SelectSeq(nodes, LAMBDA dev : dev.uid # threads[t].uid)
    /\ locks' = dropped(locks, {"nodes"}, t)
    /\ threads' = [threads EXCEPT ![t] = IdleThread]
    /\ UNCHANGED <<last_uid, lookup, pending, ret, returned, lastReg, scen, scenRes,
                   calls, busVars, ctlVars, fwVars>>

InitGrain ==
    /\ threads = [t \in Callers |-> IdleThread]
    /\ locks = [n \in LockNames |-> FreeLock]

----------------------------------------------------------------------------
\* Specifications

Init == InitUid /\ InitBus /\ InitCtl /\ InitFw /\ InitLock /\ InitGrain

\* Messages put on the bus with the sender itself in the name of a device:
\* packets of every type with the id 0x16, and beacons of another id and device
RawMsgs ==
    {Message(DeviceHidio(self_uid), All, Packet(t, 22, DefaultMaxLen, <<>>, TRUE)) :
        t \in PacketTypes}
    \cup {Message(DeviceHidio(OtherUid), All, Packet("Sync", 22, DefaultMaxLen, <<>>, TRUE)),
          Message(DeviceHidio(self_uid), All, Packet("Sync", 0, DefaultMaxLen, <<>>, TRUE))}

Range(q) == {q[i] : i \in 1..Len(q)}

NextUid ==
    \/ \E key \in Keys, path \in Paths : assign_uid(key, path)
    \/ \E endpoint \in {pending} : register_node(endpoint)
    \/ \E uid \in 0..MaxUid : unregister_node(uid)

SpecUid == Init /\ [][NextUid]_vars

\* The bus and one ack_wait call. The controller holds its receiver and is not
\* run, so the channel retains every message.
NextBus ==
    \/ send_command(ApiCapnp(1), DeviceHidio(self_uid), 22, <<>>)
    \/ drop_subscriber(self_uid, 1)
    \/ \E m \in RawMsgs : sender_send(m)
    \/ \E n \in 0..MaxSyncs : ack_wait(DeviceHidio(self_uid), 22, n)
    \/ ack_wait_next

SpecBus == Init /\ [][NextBus]_vars

\* The commands API consumers send: to the controller's device, one of them of
\* two chunks, and to another device
Commands ==
    {[dst |-> DeviceHidio(self_uid), id |-> 0, data |-> <<>>],
     [dst |-> DeviceHidio(self_uid), id |-> 22, data |-> <<1, 2>>],
     [dst |-> DeviceHidio(OtherUid), id |-> 22, data |-> <<>>]}

\* The controller and its transport; API consumers send commands, beacons and
\* drop requests
NextCtl ==
    \/ \E rd \in Reads, wok \in BOOLEAN : process(rd, wok)
    \/ tick
    \/ /\ receiver < MaxPending
       /\ \E c \in Commands : send_command(ApiCapnp(1), c.dst, c.id, c.data)
    \/ /\ receiver < MaxPending
       /\ drop_subscriber(self_uid, 1)
    \/ /\ receiver < MaxPending
       /\ sender_send(Message(ApiCapnp(1), DeviceHidio(self_uid),
                              Packet("Sync", 0, DefaultMaxLen, <<>>, TRUE)))

SpecCtl == Init /\ [][NextCtl]_vars

\* What the socket's read returns in SpecOwn: nothing, an error, or a chunk that
\* completes a packet
OwnReads == {[kind |-> "none"], [kind |-> "err"],
             [kind |-> "chunk", chunk |-> Chunk("Data", 22, FALSE, <<1>>)]}

\* The controller among the other holders of the Mailbox, which clone and drop it
NextOwn ==
    \/ \E rd \in OwnReads, wok \in BOOLEAN : process(rd, wok)
    \/ tick
    \/ /\ receiver < MaxPending
       /\ senders > 0
       /\ \E c \in Commands : send_command(ApiCapnp(1), c.dst, c.id, c.data)
    \/ clone_mailbox
    \/ drop_mailbox
    \/ channel_closes

SpecOwn == Init /\ [][NextOwn]_vars

\* The controller and an API consumer that replies to what it receives
NextReply ==
    \/ \E rd \in {r \in Reads : r.kind = "chunk" => (r.chunk.ptype = "Data" /\ r.chunk.data = <<>>)} :
          process(rd, TRUE)
    \/ api_subscribe
    \/ api_recv
    \/ /\ Len(bus) < MaxPending
       /\ send_command(ApiCapnp(1), DeviceHidio(self_uid), 22, <<>>)
    \/ /\ Len(bus) < MaxPending
       /\ drop_subscriber(self_uid, 1)
    \/ /\ Len(bus) < MaxPending /\ held # NoMsg
       /\ Message_send_ack(held, <<>>)
    \/ /\ Len(bus) < MaxPending /\ held # NoMsg
       /\ Message_send_nak(held, <<>>)

SpecReply == Init /\ [][NextReply]_vars

\* What is published while the controller is not polled: a command to its device,
\* a command to another device, and the device's Ack of a command
LagMsgs ==
    {Message(ApiCapnp(1), DeviceHidio(self_uid), Packet("Data", 22, DefaultMaxLen, <<>>, TRUE)),
     Message(ApiCapnp(1), DeviceHidio(OtherUid), Packet("Data", 22, DefaultMaxLen, <<>>, TRUE)),
     Message(DeviceHidio(self_uid), All, Packet("ACK", 22, DefaultMaxLen, <<>>, TRUE))}

\* The controller and an ack_wait call that are polled less often than messages
\* are published: the channel fills up and overwrites what they have not read
NextLag ==
    \/ \E wok \in BOOLEAN : process([kind |-> "none"], wok)
    \/ \E m \in LagMsgs : sender_send(m)
    \/ \E m \in LagMsgs : sender_send_over(m)
    \/ ack_wait(DeviceHidio(self_uid), 22, 0)
    \/ ack_wait_next

SpecLag == Init /\ [][NextLag]_vars

\* The chunks the host sends to the firmware: a Sync, a Test request (0x02) of
\* one chunk and one of two, and a request with an id that is not registered
FwChunks ==
    {Chunk("Sync", 0, FALSE, <<>>),
     Chunk("Data", 2, FALSE, <<1>>),
     Chunk("Data", 2, TRUE, <<1>>),
     Chunk("Continued", 0, FALSE, <<2>>),
     Chunk("Data", 22, FALSE, <<>>)}

\* The strings the firmware sends: one that fits a chunk, one of two chunks, and
\* one that is not UTF-8
ShortStr == CStr(TRUE, <<1>>)
LongStr == CStr(TRUE, [k \in 1..(BufChunk - 2) |-> 1])
BadStr == CStr(FALSE, <<255>>)

\* The firmware's main loop and its transport driver: chunks come in and are
\* processed, replies and a text go out
NextFw ==
    \/ hidio_init
    \/ /\ Len(rx_bytebuf) < MaxRxPending
       /\ \E chunk \in FwChunks, len \in {RxBuf, BufChunk} : hidio_rx_bytes(chunk, len)
    \/ \E len \in {TxBuf, BufChunk} : hidio_tx_bytes(len)
    \/ /\ Len(tx_bytebuf) < MaxTxPending
       /\ \E count \in 0..2 : hidio_rx_process(count)
    \/ h0001_info_data
    \/ /\ Len(tx_bytebuf) < MaxTxPending
       /\ \E string \in {ShortStr, BadStr} : hidio_h0017_unicodetext(string)

SpecFw == Init /\ [][NextFw]_vars

\* The Info Acks (0x01) the host sends: one for each property the firmware stores
\* (payload: the property and its value), and one for DeviceName, which it does
\* not store
InfoAcks ==
    {Chunk("ACK", 1, FALSE, d) :
        d \in {<<1, 1>>, <<2, 2>>, <<3, 3>>, <<11, 1>>, <<12, 1>>, <<13, 1>>, <<4, 1>>}}

\* The host answers the firmware's Info requests, the firmware reads its record
NextInfo ==
    \/ hidio_init
    \/ /\ Len(rx_bytebuf) < MaxRxPending
       /\ \E chunk \in InfoAcks : hidio_rx_bytes(chunk, RxBuf)
    \/ \E count \in 0..1 : hidio_rx_process(count)
    \/ h0001_info_data

SpecInfo == Init /\ [][NextInfo]_vars

\* The firmware sends: Info requests, texts, states and terminal output of one
\* chunk and of two, and the replies to the Test requests of the host, each
\* while the tx buffer holds few chunks; the transport driver takes the chunks
\* out one by one
NextTx ==
    \/ hidio_init
    \/ /\ Len(tx_bytebuf) <= MaxTxPending + 1
       /\ hidio_h0001_info
    \/ /\ Len(tx_bytebuf) < MaxTxPending
       /\ \E string \in {ShortStr, LongStr} : hidio_h0017_unicodetext(string)
    \/ /\ Len(tx_bytebuf) < MaxTxPending
       /\ hidio_h0018_unicodestate(ShortStr)
    \/ /\ Len(tx_bytebuf) < MaxTxPending
       /\ hidio_h0034_terminalout(LongStr)
    \/ /\ Len(tx_bytebuf) = TxBuf - 1
       /\ hidio_h0034_terminalout(LongStr)
    \/ /\ rx_bytebuf = <<>>
       /\ hidio_rx_bytes(Chunk("Data", 2, FALSE, <<1>>), RxBuf)
    \/ /\ Len(tx_bytebuf) < MaxTxPending
       /\ hidio_rx_process(0)
    \/ hidio_tx_bytes(TxBuf)

SpecTx == Init /\ [][NextTx]_vars

\* The reports the transport driver hands in when the main loop lags behind: Sync
\* chunks and Test requests
FifoChunks == {Chunk("Sync", 0, FALSE, <<>>), Chunk("Data", 2, FALSE, <<1>>)}

\* The transport driver fills the rx buffer at its own pace, the main loop
\* empties it, one packet at a time or all of it
NextFifo ==
    \/ hidio_init
    \/ \E chunk \in FifoChunks : hidio_rx_bytes(chunk, RxBuf)
    \/ \E count \in 0..1 : hidio_rx_process(count)
    \/ hidio_tx_bytes(TxBuf)

SpecFifo == Init /\ [][NextFifo]_vars

\* Two tasks, each with a clone of the Mailbox, call assign_uid once
NextLock ==
    \/ \E c \in Callers, key \in Keys, path \in Paths : uid_call(c, key, path)
    \/ \E c \in Callers : uid_get(c)
    \/ \E c \in Callers : uid_increment(c)
    \/ \E c \in Callers : uid_read(c)
    \/ \E c \in Callers : uid_add(c)

SpecLock == Init /\ [][NextLock]_vars

\* The calls the tasks make: get_uid and assign_uid for a device at a path,
\* add_uid of uid 1, register_node of an endpoint, unregister_node of the
\* endpoint with uid 1
GrainCalls ==
    {[op |-> "get_uid", key |-> "kbd", path |-> "/A", uid |-> 0],
     [op |-> "assign_uid", key |-> "kbd", path |-> "/B", uid |-> 0]}
    \cup {[op |-> "add_uid", key |-> "kbd", path |-> "", uid |-> 1]}
    \cup {[op |-> "register_node", key |-> "", path |-> "/A", uid |-> 1],
          [op |-> "register_node", key |-> "", path |-> "/B", uid |-> 2]}
    \cup {[op |-> "unregister_node", key |-> "", path |-> "", uid |-> 1]}

\* Two tasks call the Mailbox operations in any order and at any pace
NextGrain ==
    \/ \E t \in Callers, c \in GrainCalls : th_call(t, c.op, c.key, c.path, c.uid)
    \/ \E t \in Callers : th_acquire(t)
    \/ \E t \in Callers : th_none(t)
    \/ \E t \in Callers : th_scan(t)
    \/ \E t \in Callers : th_increment(t)
    \/ \E t \in Callers : th_read(t)
    \/ \E t \in Callers : th_add(t)
    \/ \E t \in Callers : th_register(t)
    \/ \E t \in Callers : th_unregister(t)

SpecGrain == Init /\ [][NextGrain]_vars

\* A silent device behind a transport that takes every write: process() is called
\* again and again, time advances, and ack_wait's stream is polled.
process_silent == process([kind |-> "none"], TRUE)

NextLive ==
    \/ process_silent
    \/ tick
    \/ \E n \in 0..MaxSyncs : ack_wait(DeviceHidio(self_uid), 22, n)
    \/ ack_wait_next
    \/ \E id \in Ids : send_command(ApiCapnp(1), DeviceHidio(self_uid), id, <<>>)

SpecLive ==
    /\ Init
    /\ [][NextLive]_vars
    /\ WF_vars(process_silent)
    /\ WF_vars(tick)
    /\ WF_vars(ack_wait_next)

----------------------------------------------------------------------------
\* Claims about the uid registry (specification SpecUid)

Live(u) == \E i \in 1..Len(nodes) : nodes[i].uid = u

\* The uids of the key's lookup entry
KeyUids(key) == IF key \in DOMAIN lookup THEN Range(lookup[key]) ELSE {}

\* The position of u in the sequence q, 0 if it is not in it
PosIn(q, u) == IF u \in Range(q) THEN CHOOSE i \in 1..Len(q) : q[i] = u ELSE 0

\* C1: no two endpoints in nodes share a uid, and a uid assign_uid has returned
\* (its endpoint not yet registered) is not held by a live endpoint with another path.
C1_UidsDistinct ==
    /\ \A i, j \in 1..Len(nodes) : i # j => nodes[i].uid # nodes[j].uid
    /\ pending # NoEndpoint =>
         \A i \in 1..Len(nodes) :
             ~(nodes[i].uid = pending.uid /\ nodes[i].path # pending.path)

\* C1 witness: a released uid was given out again while two other-path endpoints are live
C1_Witness ==
    /\ Len(nodes) >= 2
    /\ pending # NoEndpoint
    /\ pending.uid < last_uid
    /\ \E i \in 1..Len(nodes) : nodes[i].path # pending.path

\* C2 as stated: a pair registered with uid u and since unregistered gets u again
\* from the next assign_uid, whatever else the key's lookup entry holds.
C2_SamePairSameUid ==
    [][\A key \in Keys, path \in Paths :
         (assign_uid(key, path) /\ lastReg[<<key, path>>] # 0
            /\ ~Live(lastReg[<<key, path>>]))
         => (ret'.ok /\ ret'.uid = lastReg[<<key, path>>])]_vars

\* C2 amended: the pair gets u again when every uid that precedes u in the key's
\* lookup entry is live with another path; when an earlier uid of the entry is
\* released and no live uid before it has the path, that earlier uid is returned.
C2_FirstReleasedUid ==
    [][\A key \in Keys, path \in Paths :
         (assign_uid(key, path) /\ lastReg[<<key, path>>] # 0
            /\ ~Live(lastReg[<<key, path>>]))
         => LET u == lastReg[<<key, path>>]
                ent == lookup[key]
                OtherPath(i) == \E n \in 1..Len(nodes) :
                                   nodes[n].uid = ent[i] /\ nodes[n].path # path
                before == {i \in 1..Len(ent) : i < PosIn(ent, u)}
            IN /\ PosIn(ent, u) > 0
               /\ (\A i \in before : OtherPath(i))
                    => (ret'.ok /\ ret'.uid = u)
               /\ \A i \in before :
                    (~Live(ent[i]) /\ \A h \in 1..(i - 1) : OtherPath(h))
                    => (ret'.ok /\ ret'.uid = ent[i])]_vars

\* C2 witness: the pair's uid, second in the key's entry, was returned again
C2_Witness ==
    /\ ret.op = "assign_uid" /\ ret.ok
    /\ lastReg[<<ret.key, ret.path>>] = ret.uid
    /\ Len(lookup[ret.key]) >= 2
    /\ lookup[ret.key][2] = ret.uid
    /\ Live(lookup[ret.key][1])

\* C3 as stated: assign_uid fails and leaves lookup and last_uid alone whenever a
\* live endpoint of the key has the path.
C3_LivePairRejected ==
    [][\A key \in Keys, path \in Paths :
         (assign_uid(key, path)
            /\ \E i \in 1..Len(nodes) :
                  nodes[i].uid \in KeyUids(key) /\ nodes[i].path = path)
         => (~ret'.ok /\ lookup' = lookup /\ last_uid' = last_uid)]_vars

\* The key has no released uid and no live endpoint with the path
NoReleasedUid(key, path) ==
    \A u \in KeyUids(key) :
        \E i \in 1..Len(nodes) : nodes[i].uid = u /\ nodes[i].path # path

\* C4: with no released uid of the key, assign_uid returns last_uid + 1, which is
\* not 0 and greater than every uid returned before; and the UID-reuse scenario
\* from a fresh mailbox returns 1, 1, 2.
C4_FreshUid ==
    /\ [][\A key \in Keys, path \in Paths :
            (assign_uid(key, path) /\ NoReleasedUid(key, path))
            => /\ ret'.ok
               /\ ret'.uid = last_uid + 1
               /\ last_uid' = last_uid + 1
               /\ ret'.uid # 0
               /\ \A r \in returned : ret'.uid > r]_vars
    /\ [](/\ scen >= 1 => scenRes[1] = 1
          /\ scen >= 4 => scenRes[2] = 1
          /\ scen = 6 => scenRes = <<1, 1, 2>>)

\* C4 witness: the whole scenario has run
C4_Witness == scen = 6 /\ last_uid = 2 /\ ret.uid = 2

----------------------------------------------------------------------------
\* Claims about ack_wait (specification SpecBus: the channel retains every message)

\* The messages ack_wait's stream has yielded, in order
Consumed == SubSeq(bus, aw.sub + 1, aw.sub + aw.read)

\* The messages published between ack_wait's subscription and its return
PublishedInCall == SubSeq(bus, aw.sub + 1, aw.retLen)

Matches(m) == m.src = aw.src /\ m.data.id = aw.id

\* Positions in q of the matching Ack and Nak messages, and of the matching Syncs
AckNakAt(q) == {k \in 1..Len(q) : Matches(q[k]) /\ q[k].data.ptype \in {"ACK", "NAK"}}
SyncAt(q) == {k \in 1..Len(q) : Matches(q[k]) /\ q[k].data.ptype = "Sync"}

MinOf(S) == CHOOSE k \in S : \A j \in S : k <= j

ResultFor(m) == IF m.data.ptype = "ACK" THEN "Ok" ELSE "NAKReceived"

\* C5 as stated: once ack_wait has returned, it returned the first matching Ack or
\* Nak of the messages published after it subscribed.
C5_FirstAckOrNak ==
    (aw.pc = "done" /\ AckNakAt(PublishedInCall) # {}) =>
        LET m == PublishedInCall[MinOf(AckNakAt(PublishedInCall))] IN
        aw.result = ResultFor(m) /\ aw.msg = m

\* C5 amended: ack_wait ignores the messages that do not match and the data
\* packets (while it waits it has met no matching Ack or Nak and its budget is the
\* initial one less the matching Syncs), and it returns the first matching Ack or
\* Nak of its stream when at most max_syncs matching Syncs precede it.
C5_FirstAckOrNakInBudget ==
    /\ aw.pc = "waiting" =>
         /\ AckNakAt(Consumed) = {}
         /\ Cardinality(SyncAt(Consumed)) <= aw.n
         /\ aw.max_sync_packets = aw.n - Cardinality(SyncAt(Consumed))
         /\ aw.result = "none"
    /\ \A k \in AckNakAt(Consumed) :
         Cardinality({j \in SyncAt(Consumed) : j < k}) <= aw.n =>
            /\ k = MinOf(AckNakAt(Consumed))
            /\ k = Len(Consumed)
            /\ aw.pc = "done"
            /\ aw.result = ResultFor(Consumed[k])
            /\ aw.msg = Consumed[k]

\* C5 witness: a Nak was returned after a data packet, a foreign Sync and a
\* matching Sync were passed over
C5_Witness ==
    /\ aw.pc = "done" /\ aw.result = "NAKReceived"
    /\ aw.n >= 1
    /\ Len(Consumed) >= 2
    /\ \E k \in 1..Len(Consumed) : ~Matches(Consumed[k]) \/ Consumed[k].data.ptype = "Data"

\* C6 as stated (for a budget of at least 1): after max_syncs matching Syncs and
\* no matching Ack or Nak, ack_wait has returned TooManySyncs.
C6_ReturnsAtMaxSyncs ==
    (aw.pc # "idle" /\ aw.n >= 1 /\ AckNakAt(Consumed) = {}
        /\ Cardinality(SyncAt(Consumed)) >= aw.n)
    => aw.result = "TooManySyncs"

\* C6 amended: with no matching Ack or Nak, ack_wait returns TooManySyncs on the
\* matching Sync number max_syncs + 1; after max_syncs of them it still waits.
C6_ReturnsAfterMaxSyncs ==
    (aw.pc # "idle" /\ AckNakAt(Consumed) = {}) =>
        /\ Cardinality(SyncAt(Consumed)) <= aw.n + 1
        /\ Cardinality(SyncAt(Consumed)) <= aw.n => (aw.pc = "waiting" /\ aw.result = "none")
        /\ Cardinality(SyncAt(Consumed)) = aw.n + 1
             => (aw.pc = "done" /\ aw.result = "TooManySyncs"
                 /\ Matches(Consumed[Len(Consumed)])
                 /\ Consumed[Len(Consumed)].data.ptype = "Sync")

\* C6 witness: a call with budget 1 returned TooManySyncs on its second Sync
C6_Witness ==
    /\ aw.pc = "done" /\ aw.result = "TooManySyncs"
    /\ aw.n = 1
    /\ Cardinality(SyncAt(Consumed)) = 2

----------------------------------------------------------------------------
\* Claims about the controller

\* C7 (specification SpecLive): with the device silent, process() called again and
\* again and time advancing, ack_wait(DeviceHidio{uid}, 0x16, 2) eventually
\* returns TooManySyncs.
C7_BeaconsEndAckWait ==
    (aw.pc = "waiting" /\ aw.n = 2 /\ aw.src = DeviceHidio(self_uid) /\ aw.id = 22)
        ~> (aw.result = "TooManySyncs")

\* C8 (specification SpecReply): no message on the bus has src = All.
C8_NoAllSource ==
    \A k \in 1..Len(bus) : bus[k].src # All

\* The chunks process() wrote with send_ack in the last step
AcksWritten == SelectSeq(wire, LAMBDA w : w.by = "send_ack")

\* C9 (specification SpecCtl): a process() call that reads a chunk of a Data packet
\* and whose writes the transport takes writes one Ack (empty payload, the
\* packet's id) and publishes one message (src DeviceHidio{uid}, dst All, the
\* reassembled packet) when the chunk is the final one, leaving the fresh buffer;
\* it writes no Ack and publishes nothing when the chunk is continued.
C9_OneAckOnePublish ==
    [][\A rd \in {r \in Reads : log' # <<>> /\ log'[1].ev = "read" /\ r.kind = "chunk"
                                  /\ r.chunk = log'[1].chunk} :
         (/\ \/ rd.chunk.ptype = "Data"
             \/ rd.chunk.ptype = "Continued" /\ received.ptype = "Data"
          /\ status' = "running")
         => LET head == rd.chunk.ptype = "Data"
                id == IF head THEN rd.chunk.id ELSE received.id
                data == IF head THEN rd.chunk.data ELSE received.data \o rd.chunk.data
            IN IF rd.chunk.cont
               THEN /\ AcksWritten' = <<>>
                    /\ pubs' = <<>>
               ELSE /\ AcksWritten' = <<[by |-> "send_ack",
                                         chunk |-> Chunk("ACK", id, FALSE, <<>>)]>>
                    /\ pubs' = <<Message(DeviceHidio(self_uid), All,
                                         Packet("Data", id, max_packet_len, data, TRUE))>>
                    /\ received' = create_buffer]_vars

\* C9 witness: a packet of a head and a continuation chunk was acked and published
C9_Witness ==
    /\ status = "running"
    /\ Len(pubs) = 1
    /\ pubs[1].data.ptype = "Data" /\ pubs[1].data.data = <<1, 2>>
    /\ Len(AcksWritten) = 1
    /\ received = create_buffer

\* C10 (specification SpecCtl): the process() call that completes a no-ack packet
\* (and publishes it) writes no Ack and no Nak of its own to the transport.
C10_NoAckForNaData ==
    (pubs # <<>> /\ pubs[1].data.ptype \in {"NAData", "NAContinued"})
    => \A k \in 1..Len(wire) :
          ~(wire[k].by = "send_ack" /\ wire[k].chunk.ptype \in {"ACK", "NAK"})

\* C11 (specification SpecCtl): the process() call that reads a packet of type ACK
\* (and publishes it) writes no Ack to the transport.
C11_NoAckForAck ==
    (pubs # <<>> /\ pubs[1].data.ptype = "ACK")
    => \A k \in 1..Len(wire) : wire[k].by # "send_ack"

\* C12 (specification SpecCtl): in a process() call that publishes a completed
\* Data packet, the chunk is read first, the Ack (the packet's id, empty payload)
\* is written next and the publish comes after it; a call reads one chunk at
\* most, so no further chunk is read or decoded before the Ack is written.
C12_AckBeforePublish ==
    /\ \A k \in 1..Len(log) : log[k].ev = "read" => k = 1
    /\ \A k \in 1..Len(log) :
          (log[k].ev = "publish" /\ log[k].msg.data.ptype = "Data")
          => /\ k = 3
             /\ log[1].ev = "read"
             /\ log[2] = Event("write", "send_ack",
                               Chunk("ACK", log[k].msg.data.id, FALSE, <<>>), NoMsg)

\* C12 witness: a Data packet of two chunks was acked and then published
C12_Witness ==
    /\ Len(log) >= 3
    /\ log[1].ev = "read" /\ log[1].chunk.ptype = "Continued"
    /\ log[2].ev = "write" /\ log[2].by = "send_ack"
    /\ log[3].ev = "publish" /\ log[3].msg.data.data = <<1, 2>>

\* The messages the events lg pulled from the receiver, in order
Pulled(lg) ==
    LET ps == SelectSeq(lg, LAMBDA e : e.ev = "pull") IN
    [k \in 1..Len(ps) |-> ps[k].msg]

\* The chunks of the packet process() writes for the message m
ChunksFor(m) ==
    IF m.dst = DeviceHidio(self_uid)
    THEN serialize_buffer([m.data EXCEPT !.max_len = max_packet_len]) ELSE <<>>

\* C13 (specification SpecCtl): a process() call pulls the messages in the order
\* they entered the channel, and writes the chunks of a pulled packet one after
\* the other right after pulling it: up to the next pull nothing else is written,
\* and no chunk of a pulled packet is written before the first pull (where the
\* call's Ack is written).
C13_OutboundInOrder ==
    [][(\E k \in 1..Len(log') : log'[k].ev = "pull")
       => /\ Pulled(log') = Retain(bus \o pubs', receiver + Len(pubs'))
          /\ \A k \in 1..Len(log') :
                log'[k].ev = "pull"
                => LET cs == ChunksFor(log'[k].msg) IN
                   /\ k + Len(cs) <= Len(log')
                   /\ \A i \in 1..Len(cs) :
                         log'[k + i] = Event("write", "mailbox", cs[i], NoMsg)
                   /\ k + Len(cs) < Len(log') => log'[k + Len(cs) + 1].ev = "pull"
          /\ \A k \in 1..Len(log') :
                (log'[k].ev = "write" /\ log'[k].by = "mailbox")
                => \E j \in 1..(k - 1) : log'[j].ev = "pull"
          /\ wire' = writes_of(log')]_vars

\* C13 witness: a packet of two chunks and then another packet were written, after
\* the Ack of the call
C13_Witness ==
    /\ Len(wire) = 4
    /\ wire[1].by = "send_ack"
    /\ wire[2].by = "mailbox" /\ wire[2].chunk.id = 22 /\ wire[2].chunk.cont
    /\ wire[3].by = "mailbox" /\ wire[3].chunk.ptype = "Continued"
    /\ wire[4].by = "mailbox" /\ wire[4].chunk.id = 0

\* The chunks of the packets of the messages ms that are addressed to the
\* endpoint, each packet cut with the endpoint's max_packet_len
RECURSIVE ChunksOfAll(_)
ChunksOfAll(ms) ==
    IF ms = <<>> THEN <<>> ELSE ChunksFor(ms[1]) \o ChunksOfAll(Tail(ms))

\* C14 (specification SpecCtl): of the messages a process() call pulls, the ones
\* with dst = DeviceHidio{uid} are written to the transport, cut into chunks with
\* max_len = max_packet_len, and no other one is (dst = All, another uid, another
\* variant); when one of the written packets is a Sync the reassembly buffer is
\* the fresh one afterwards.
C14_OnlyAddressedWritten ==
    [][(\E k \in 1..Len(log') : log'[k].ev = "pull")
       => LET pend == Retain(bus \o pubs', receiver + Len(pubs'))
              cs == ChunksOfAll(pend)
          IN /\ SelectSeq(wire', LAMBDA w : w.by = "mailbox")
                  = [k \in 1..Len(cs) |-> [by |-> "mailbox", chunk |-> cs[k]]]
             /\ (\E k \in 1..Len(pend) :
                    pend[k].dst = DeviceHidio(self_uid) /\ pend[k].data.ptype = "Sync")
                 => received' = create_buffer]_vars

\* C14 witness: a call pulled a message to all, one to another device and a Sync
\* to this endpoint, wrote the Sync and left the fresh buffer
C14_Witness ==
    /\ \E k \in 1..Len(log) : log[k].ev = "pull" /\ log[k].msg.dst = All
    /\ \E k \in 1..Len(log) : log[k].ev = "pull" /\ log[k].msg.dst = DeviceHidio(OtherUid)
    /\ \E k \in 1..Len(wire) : wire[k].by = "mailbox" /\ wire[k].chunk.ptype = "Sync"
    /\ received = create_buffer

\* The last step wrote a Sync beacon
Beaconed == \E k \in 1..Len(wire) : wire[k].by = "send_sync"

\* C15 (specification SpecCtl): a process() call that reads no chunk writes a Sync
\* beacon exactly when 5 seconds have passed since the last chunk read and the
\* last beacon; a call that reads a chunk writes none and restarts the interval;
\* a beacon leaves the fresh buffer and restarts the interval, and the seconds
\* counted since then rise one at a time, so two beacons are 5 seconds apart at
\* least; when the beacon's write fails the call ends with BrokenPipe.
C15_BeaconAfterFiveSeconds ==
    [][/\ \A wok \in BOOLEAN :
            (elapsed >= SyncSecs /\ process([kind |-> "none"], wok))
            => IF wok
               THEN /\ wire' = <<[by |-> "send_sync",
                                  chunk |-> Chunk("Sync", 0, FALSE, <<>>)]>>
                    /\ status' = "running"
               ELSE ~Beaconed' /\ status' = "broken_pipe"
       /\ (log' # <<>> /\ log'[1].ev = "read")
            => /\ ~Beaconed'
               /\ status' = "running" => elapsed' = 0
       /\ Beaconed' => (elapsed >= SyncSecs /\ elapsed' = 0 /\ received' = create_buffer)
       /\ elapsed' > elapsed => (elapsed' = elapsed + 1 /\ ~Beaconed')]_vars

\* C15 witness: a beacon was written by a call that left a message pending
C15_Witness ==
    /\ Beaconed
    /\ status = "running"
    /\ elapsed = 0
    /\ log = <<Event("write", "send_sync", Chunk("Sync", 0, FALSE, <<>>), NoMsg)>>
    /\ receiver > 0

\* C16 (specification SpecCtl): when a process() call returns Ok, every message
\* that was pending in the controller's receiver at the call and is addressed to
\* the endpoint has been written to the transport, and the receiver is drained.
C16_OkDrainsReceiver ==
    [][\A rd \in {r \in Reads : r.kind # "err"} :
         (status' = "running" /\ process(rd, TRUE))
         => LET cs == ChunksOfAll(Retain(bus, receiver)) IN
            /\ SelectSeq(wire', LAMBDA w : w.by = "mailbox")
                 = [k \in 1..Len(cs) |-> [by |-> "mailbox", chunk |-> cs[k]]]
            /\ receiver' = 0]_vars

\* C17 (specification SpecCtl): the process() call that pulls a drop request for
\* the controller's uid (src DropSubscription, dst CancelSubscription{uid, sid})
\* stops the controller, and writes nothing of the request to the transport.
C17_DropStopsController ==
    [][(\E k \in 1..Len(log') :
           /\ log'[k].ev = "pull"
           /\ log'[k].msg.src = DropSubscription
           /\ log'[k].msg.dst.tag = "CancelSubscription"
           /\ log'[k].msg.dst.uid = self_uid)
       => /\ status' # "running"
          /\ \A k \in 1..Len(wire') : wire'[k].by # "mailbox"]_vars

\* C20 (specification SpecCtl): a chunk that fails to decode leaves the controller
\* running with the fresh reassembly buffer, and nothing is published for it.
C20_DecodeErrorRecovers ==
    [][(/\ log' # <<>>
        /\ log'[1].ev = "read"
        /\ ~decode_packet(received, log'[1].chunk).ok)
       => /\ status' = "running"
          /\ received' = create_buffer
          /\ pubs' = <<>>]_vars

----------------------------------------------------------------------------
\* Claims about a receiver that falls behind the channel (specification SpecLag)

\* The controller's receiver has fallen behind: its next try_recv() reports Lagged
ControllerLagged == status = "running" /\ receiver > Len(bus)

\* ack_wait's receiver has fallen behind: its next item is Err(Lagged)
AckWaitLagged == aw.pc = "waiting" /\ aw.unread > Len(bus)

\* C19 (specification SpecLag): a receiver that has fallen behind the channel's
\* slots is not disconnected. A process() call on a lagged receiver (no beacon
\* due, the transport taking the writes) returns no error, pulls every message the
\* channel still holds, in order, writes the packets of the ones addressed to the
\* endpoint in that order, and leaves nothing unread; a turn of ack_wait's loop on
\* a lagged receiver passes the lag notification over and keeps waiting, with
\* what the channel still holds ahead of it.
C19_LaggedNotDisconnected ==
    [][/\ \A wok \in BOOLEAN :
            (ControllerLagged /\ elapsed < SyncSecs /\ wok /\ process([kind |-> "none"], wok))
            => /\ status' = "running"
               /\ log'[1].ev = "lagged"
               /\ Pulled(log') = bus
               /\ LET cs == ChunksOfAll(bus)
                  IN wire' = [k \in 1..Len(cs) |-> [by |-> "mailbox", chunk |-> cs[k]]]
               /\ receiver' = 0
       /\ (AckWaitLagged /\ ack_wait_next)
            => /\ aw'.pc = "waiting"
               /\ aw'.result = "none"
               /\ aw'.unread = Len(bus)
               /\ aw'.max_sync_packets = aw.max_sync_packets]_vars

\* C19 witness: a call of process() on a lagged receiver has written the packets
\* of two messages the channel still held, while ack_wait, lagged as well, has
\* passed its notification over and waits with the channel's messages ahead of it
C19_Witness ==
    /\ status = "running"
    /\ log # <<>> /\ log[1].ev = "lagged"
    /\ Len(Pulled(log)) = MaxBus
    /\ Len(wire) >= 2
    /\ \A k \in 1..Len(wire) : wire[k].by = "mailbox"
    /\ aw.pc = "waiting" /\ aw.unread = MaxBus

----------------------------------------------------------------------------
\* Claims about concurrent callers of assign_uid (specification SpecLock)

\* C30 (specification SpecLock): two assign_uid calls from clones of one Mailbox,
\* made with different keys and both returning Ok, return different uids, and
\* once both have returned last_uid is the number of uids they made.
C30_ConcurrentUidsDistinct ==
    \A c, d \in Callers :
        (c # d /\ calls[c].pc = "done" /\ calls[d].pc = "done"
             /\ calls[c].res = "Ok" /\ calls[d].res = "Ok" /\ calls[c].key # calls[d].key)
        => /\ calls[c].uid # calls[d].uid
           /\ last_uid = Cardinality({e \in Callers : calls[e].fresh})

----------------------------------------------------------------------------
\* Claims about the firmware's C interface (specification SpecFw)

\* The entry points that return a HidioStatus and work on INTF
StatusOps ==
    {"hidio_rx_bytes", "hidio_tx_bytes", "hidio_rx_process", "hidio_h0001_info",
     "hidio_h0017_unicodetext", "hidio_h0018_unicodestate", "hidio_h0034_terminalout"}

\* C21 (specification SpecFw): before hidio_init every entry point that returns a
\* status returns ErrorNotInitialized, whatever its arguments, h0001_info_data
\* returns false, and none of them changes INTF or anything in it.
C21_NotInitializedBeforeInit ==
    [][(~intf /\ fw_ret'.op # "hidio_init")
       => /\ fw_ret'.op \in StatusOps => fw_ret'.status = "ErrorNotInitialized"
          /\ fw_ret'.op = "h0001_info_data" => fw_ret'.status = "false"
          /\ UNCHANGED <<intf, rx_bytebuf, rx_packetbuf, tx_bytebuf, hostinfo, os_version,
                         host_software_name>>]_vars

\* Lengths a driver passes: one byte, the number of chunks of a buffer, one more,
\* the chunk size, one more
DriverLens == {1, RxBuf, RxBuf + 1, BufChunk, BufChunk + 1}

\* C22 (specification SpecFw): after initialization hidio_rx_bytes takes a chunk of
\* any length from 1 to the chunk size: with room in the rx buffer it returns
\* Success and the chunk is the newest of the rx buffer; it answers
\* ErrorBufSizeTooLarge only to a length above the chunk size.
C22_ChunkSizeAccepted ==
    [][\A chunk \in FwChunks, len \in DriverLens :
          (intf /\ hidio_rx_bytes(chunk, len))
          => /\ (len <= BufChunk /\ Len(rx_bytebuf) < RxBuf)
                  => /\ fw_ret'.status = "Success"
                     /\ rx_bytebuf' = Append(rx_bytebuf, Bytes(chunk, len))
             /\ fw_ret'.status = "ErrorBufSizeTooLarge" => len > BufChunk]_vars

\* C23 (specification SpecFw): after initialization hidio_tx_bytes with len equal
\* to the chunk size returns Success and takes the oldest chunk out of the tx
\* buffer, or returns BufferEmpty on an empty one and leaves it; a smaller len
\* gets ErrorBufSizeTooSmall and a larger one ErrorBufSizeTooLarge, and nothing is
\* taken out.
C23_TxChunkDequeued ==
    [][\A len \in DriverLens :
          (intf /\ hidio_tx_bytes(len))
          => /\ (len = BufChunk /\ tx_bytebuf # <<>>)
                  => (fw_ret'.status = "Success" /\ tx_bytebuf' = Tail(tx_bytebuf))
             /\ (len = BufChunk /\ tx_bytebuf = <<>>)
                  => (fw_ret'.status = "BufferEmpty" /\ UNCHANGED tx_bytebuf)
             /\ len < BufChunk
                  => (fw_ret'.status = "ErrorBufSizeTooSmall" /\ UNCHANGED tx_bytebuf)
             /\ len > BufChunk
                  => (fw_ret'.status = "ErrorBufSizeTooLarge" /\ UNCHANGED tx_bytebuf)]_vars

\* How many events of the kind ev the log lg has
Count(lg, ev) == Len(SelectSeq(lg, LAMBDA e : e.ev = ev))

\* The call the log lg is of ended with an error
Failed(lg) == Count(lg, "error") > 0

\* C24, as claimed (specification SpecFw): hidio_rx_process(count) services at
\* most count packets when count > 0 and decodes nothing after the last of them,
\* with count = 0 it leaves the rx buffer empty, and it returns Success exactly
\* when it serviced a packet, BufferNotReady when it serviced none and no error
\* occurred.
C24_ServicedCount ==
    [][\A count \in 0..2 :
          (intf /\ hidio_rx_process(count))
          => /\ count > 0 => Count(fw_log', "serviced") <= count
             /\ count = 0 => rx_bytebuf' = <<>>
             /\ fw_ret'.status = "Success" <=> Count(fw_log', "serviced") >= 1
             /\ (Count(fw_log', "serviced") = 0 /\ ~Failed(fw_log'))
                  => fw_ret'.status = "BufferNotReady"]_vars

\* C24, amended (specification SpecFw): hidio_rx_process(count) services at most
\* count packets when count > 0 and decodes nothing after the count-th; the chunks
\* it did not decode stay queued, in order; with count = 0 it leaves the rx buffer
\* empty unless decoding or handling fails; it returns ErrorDetailed exactly when
\* decoding or handling fails (whatever it serviced before), otherwise Success
\* when it serviced a packet and BufferNotReady when it serviced none; it decodes
\* each chunk once, so the call ends after at most as many turns as the rx buffer
\* has chunks.
C24_ServicedCountUnlessError ==
    [][\A count \in 0..2 :
          (intf /\ hidio_rx_process(count))
          => LET n == Count(fw_log', "serviced")
                 dec == Count(fw_log', "decode")
             IN /\ count > 0 => n <= count
                /\ (count > 0 /\ n = count) => fw_log'[Len(fw_log')].ev = "serviced"
                /\ dec <= Len(rx_bytebuf)
                /\ rx_bytebuf' = SubSeq(rx_bytebuf, dec + 1, Len(rx_bytebuf))
                /\ (count = 0 /\ ~Failed(fw_log')) => rx_bytebuf' = <<>>
                /\ fw_ret'.status = "ErrorDetailed" <=> Failed(fw_log')
                /\ fw_ret'.status = "Success" <=> (n >= 1 /\ ~Failed(fw_log'))
                /\ fw_ret'.status = "BufferNotReady" <=> (n = 0 /\ ~Failed(fw_log'))]_vars

\* C24 witness: a call with count = 1 serviced one packet and left the chunk of
\* the next one queued
C24_Witness ==
    /\ fw_ret.op = "hidio_rx_process" /\ fw_ret.status = "Success"
    /\ Count(fw_log, "serviced") = 1
    /\ rx_bytebuf # <<>>

\* The events of the kind ev in the log lg
Events(lg, ev) == SelectSeq(lg, LAMBDA e : e.ev = ev)

\* Every rx chunk of the sequence rx is a Sync
OnlySyncs(rx) == \A i \in 1..Len(rx) : rx[i].chunk.ptype = "Sync"

\* C27 (specification SpecFw): in hidio_rx_process a Sync packet is never passed
\* to message handling and is not counted: no more packets are handled than
\* chunks other than Sync were decoded; when the last chunk decoded is a Sync the
\* reassembly buffer is left cleared; and a call on an rx buffer that holds only
\* Sync chunks decodes them all, handles nothing, leaves the tx buffer as it was
\* and returns BufferNotReady.
C27_SyncConsumedSilently ==
    [][\A count \in 0..2 :
          (intf /\ hidio_rx_process(count))
          => LET dec == Events(fw_log', "decode")
                 han == Events(fw_log', "handle")
             IN /\ \A i \in 1..Len(han) : han[i].item.ptype # "Sync"
                /\ Len(han) <= Len(SelectSeq(dec, LAMBDA e : e.item.chunk.ptype # "Sync"))
                /\ (dec # <<>> /\ dec[Len(dec)].item.chunk.ptype = "Sync")
                     => rx_packetbuf' = clear(rx_packetbuf)
                /\ (rx_bytebuf # <<>> /\ OnlySyncs(rx_bytebuf))
                     => /\ fw_ret'.status = "BufferNotReady"
                        /\ rx_bytebuf' = <<>>
                        /\ Len(dec) = Len(rx_bytebuf)
                        /\ han = <<>>
                        /\ Count(fw_log', "serviced") = 0
                        /\ tx_bytebuf' = tx_bytebuf]_vars

\* C27 witness: a call decoded Sync chunks only and returned BufferNotReady
C27_Witness ==
    /\ fw_ret.op = "hidio_rx_process" /\ fw_ret.status = "BufferNotReady"
    /\ Count(fw_log, "decode") = MaxRxPending
    /\ \A i \in 1..Len(fw_log) : fw_log[i].ev = "decode" /\ fw_log[i].item.chunk.ptype = "Sync"

\* C28, as claimed (specification SpecFw): whenever hidio_rx_process returns
\* ErrorDetailed the reassembly buffer is in its cleared state afterwards.
C28_ClearedAfterError ==
    [][\A count \in 0..2 :
          (intf /\ hidio_rx_process(count) /\ fw_ret'.status = "ErrorDetailed")
          => rx_packetbuf' = clear(rx_packetbuf)]_vars

\* The host-info record hi with the field of the property set from the value v of
\* an Info Ack: a number for the four numeric fields, and for the two strings the
\* pointer to the String of the CommandInterface the value is stored in
WithProperty(hi, property, v) ==
    IF property = "MajorVersion" THEN [hi EXCEPT !.major_version = v]
    ELSE IF property = "MinorVersion" THEN [hi EXCEPT !.minor_version = v]
    ELSE IF property = "PatchVersion" THEN [hi EXCEPT !.patch_version = v]
    ELSE IF property = "OsType" THEN [hi EXCEPT !.os = v]
    ELSE IF property = "OsVersion" THEN [hi EXCEPT !.os_version = StrPtr("INTF", "os_version")]
    ELSE IF property = "HostSoftwareName"
    THEN [hi EXCEPT !.host_software_name = StrPtr("INTF", "host_software_name")]
    ELSE hi

\* C26, as claimed (specification SpecInfo): a call of hidio_rx_process that
\* handles one Info Ack sets the field of the Ack's property in the host-info
\* record (for the two strings: the field designates the string received) and
\* leaves the other fields as they were; for another property it fails and leaves
\* the record as it was; a step that handles no Info Ack leaves the record as it
\* was, unless it is the initialization.
C26_InfoAckUpdatesField ==
    [][LET han == Events(fw_log', "handle") IN
       IF intf /\ fw_ret'.op = "hidio_rx_process" /\ Len(han) = 1
       THEN LET property == Property(han[1].item.data[1])
                v == han[1].item.data[2]
            IN /\ hostinfo' = WithProperty(hostinfo, property, v)
               /\ property = "OsVersion" => os_version' = <<v>>
               /\ property = "HostSoftwareName" => host_software_name' = <<v>>
               /\ property \in {"DeviceName", "Unknown"} => fw_ret'.status = "ErrorDetailed"
       ELSE (intf /\ han = <<>>) => hostinfo' = hostinfo]_vars

\* C25 (specification SpecTx): in every reachable state the chunks of one packet
\* are next to each other in the tx buffer, in the order of their serialization:
\* every chunk in the buffer is the chunk of its packet's serialization at its
\* place ix, and a chunk that is not the first of its packet has the chunk before
\* it of the same packet right in front of it, unless it is the oldest chunk in
\* the buffer.
C25_TxContiguous ==
    \A i \in 1..Len(tx_bytebuf) :
        /\ tx_bytebuf[i].ix \in 1..Len(serialize_buffer(tx_bytebuf[i].pk))
        /\ tx_bytebuf[i].chunk = serialize_buffer(tx_bytebuf[i].pk)[tx_bytebuf[i].ix]
        /\ (i > 1 /\ tx_bytebuf[i].ix > 1)
           => /\ tx_bytebuf[i - 1].pk = tx_bytebuf[i].pk
              /\ tx_bytebuf[i - 1].ix = tx_bytebuf[i].ix - 1

\* C25 witness: the tx buffer is full, and a packet of two chunks is in it
\* between the chunks of other packets
C25_Witness ==
    /\ Len(tx_bytebuf) = TxBuf
    /\ \E j \in 2..(TxBuf - 2) :
          /\ tx_bytebuf[j].pk = tx_bytebuf[j + 1].pk
          /\ tx_bytebuf[j].ix = 1 /\ tx_bytebuf[j + 1].ix = 2
          /\ tx_bytebuf[j - 1].pk # tx_bytebuf[j].pk
          /\ tx_bytebuf[j + 2].pk # tx_bytebuf[j].pk

\* The chunks the log lg says were handed to the decoder, in that order
Decoded(lg) ==
    LET dec == Events(lg, "decode") IN [k \in 1..Len(dec) |-> dec[k].item]

\* C29 (specification SpecFifo): the rx buffer never holds more than RxBuf
\* chunks; hidio_rx_bytes on a full rx buffer returns ErrorBufFull and leaves it
\* as it was, and on one that is not full it appends the chunk at the tail;
\* hidio_rx_process hands the decoder the chunks from the head of the rx buffer, in
\* the order they are in, and leaves the rest in the buffer.
C29_RxFifoBounded ==
    [][/\ Len(rx_bytebuf') <= RxBuf
       /\ \A chunk \in FifoChunks :
             (intf /\ hidio_rx_bytes(chunk, RxBuf))
             => IF Len(rx_bytebuf) = RxBuf
                THEN fw_ret'.status = "ErrorBufFull" /\ rx_bytebuf' = rx_bytebuf
                ELSE /\ fw_ret'.status = "Success"
                     /\ rx_bytebuf' = rx_bytebuf \o <<Bytes(chunk, RxBuf)>>
       /\ \A count \in 0..1 :
             (intf /\ hidio_rx_process(count))
             => LET dec == Decoded(fw_log') IN
                /\ Len(dec) <= Len(rx_bytebuf)
                /\ dec = SubSeq(rx_bytebuf, 1, Len(dec))
                /\ rx_bytebuf' = SubSeq(rx_bytebuf, Len(dec) + 1, Len(rx_bytebuf))]_vars

\* C29 witness: hidio_rx_bytes was refused on a full rx buffer that holds chunks
\* of both kinds
C29_Witness ==
    /\ fw_ret.op = "hidio_rx_bytes" /\ fw_ret.status = "ErrorBufFull"
    /\ Len(rx_bytebuf) = RxBuf
    /\ \A chunk \in FifoChunks : \E i \in 1..RxBuf : rx_bytebuf[i].chunk = chunk

----------------------------------------------------------------------------
\* Claims about the locks of the Mailbox

\* The locks the task t holds a guard of
holds(t) == {n \in LockNames : locks[n].w = t \/ t \in locks[n].r}

\* The task t asks for a lock and cannot have it now
blocked(t) ==
    LET w == wants(threads[t]) IN
    /\ w # NoLock
    /\ IF w.mode = "w" THEN ~can_write(locks[w.lock]) ELSE ~can_read(locks[w.lock])

\* C31 (specification SpecGrain): no interleaving of get_uid, add_uid, assign_uid,
\* register_node and unregister_node calls of two tasks deadlocks: a task that
\* waits for a lock waits for another task that holds a guard of it and does not
\* wait itself; a task that asks for a lock while it holds a guard holds the
\* write guard of lookup, nothing else, and asks for nodes to read; a task never
\* holds more than these two guards; and a task that holds a guard of nodes asks
\* for neither lookup nor last_uid.
C31_NoDeadlock ==
    \A t \in Callers :
        /\ blocked(t)
           => \E u \in Callers \ {t} :
                 /\ wants(threads[t]).lock \in holds(u)
                 /\ ~blocked(u)
                 /\ threads[u].pc \in {"outer", "inner", "incrementing", "reading", "adding",
                                       "registering", "unregistering"}
        /\ (wants(threads[t]) # NoLock /\ holds(t) # {})
           => /\ holds(t) = {"lookup"} /\ locks["lookup"].w = t
              /\ wants(threads[t]) = Want("nodes", "r")
        /\ Cardinality(holds(t)) > 1
           => /\ holds(t) = {"lookup", "nodes"}
              /\ locks["lookup"].w = t /\ t \in locks["nodes"].r
        /\ "nodes" \in holds(t) => wants(threads[t]).lock \notin {"lookup", "last_uid"}
        /\ \A n \in LockNames : locks[n].w # 0 => locks[n].r = {}

\* C31 witness: a task is in the inner loop of get_uid, with the write guard of
\* lookup and a read guard of nodes, and the other task waits for nodes to write
C31_Witness ==
    \E t, u \in Callers :
        /\ threads[u].pc = "inner" /\ holds(u) = {"lookup", "nodes"}
        /\ blocked(t) /\ wants(threads[t]) = Want("nodes", "w")

----------------------------------------------------------------------------
\* Claims about the subscription of ack_wait

\* The message m is the device's Ack ack_wait waits for
AwaitedAck(m) == Matches(m) /\ m.data.ptype = "ACK"

\* C32 (specification SpecBus): every message the stream of ack_wait yields was
\* published after ack_wait subscribed; an Ack it returns is the message its
\* stream yielded; and it does not return Ok as long as no matching Ack has been
\* published after its subscription, whatever was published before.
C32_OnlyAfterSubscription ==
    [][ack_wait_next
       => LET ix == Len(bus) - aw.unread + 1 IN
          /\ ix > aw.sub
          /\ ix <= Len(bus)
          /\ aw'.result = "Ok" => (aw'.msg = bus[ix] /\ AwaitedAck(bus[ix]))
          /\ (\A i \in (aw.sub + 1)..ix : ~AwaitedAck(bus[i])) => aw'.result # "Ok"]_vars

\* C32 witness: a command was sent and the device's Ack for it was published, both
\* before ack_wait subscribed; ack_wait has since read a message and still waits
C32_Witness ==
    /\ aw.pc = "waiting" /\ aw.read >= 1 /\ aw.unread = 0
    /\ \E j, i \in 1..aw.sub :
          /\ j < i
          /\ bus[j] = Message(ApiCapnp(1), DeviceHidio(self_uid),
                              Packet("Data", 22, DefaultMaxLen, <<>>, TRUE))
          /\ AwaitedAck(bus[i])

----------------------------------------------------------------------------
\* Claims about the Sync and NAK packets read from the transport

\* The buffer decode_packet leaves when the first event of lg is the read of a
\* chunk that decodes into a Sync or NAK packet
ReadSyncOrNak(lg, buf) ==
    /\ lg # <<>>
    /\ lg[1].ev = "read"
    /\ decode_packet(buf, lg[1].chunk).ok
    /\ decode_packet(buf, lg[1].chunk).buf.ptype \in {"Sync", "NAK"}

\* C33 (specification SpecCtl): a process() call whose read chunk decodes into a
\* Sync or NAK packet leaves the fresh reassembly buffer, writes no Ack and
\* publishes nothing; and no call publishes a message from DeviceHidio(self_uid)
\* whose packet type is Sync or NAK.
C33_SyncNakResetOnly ==
    [][/\ ReadSyncOrNak(log', received)
          => /\ received' = create_buffer
             /\ \A k \in 1..Len(log') :
                   /\ ~(log'[k].ev = "write" /\ log'[k].by = "send_ack")
                   /\ log'[k].ev # "publish"
             /\ \A k \in 1..Len(wire') : wire'[k].by # "send_ack"
             /\ pubs' = <<>>
       /\ \A k \in 1..Len(pubs') :
             pubs'[k].src = DeviceHidio(self_uid)
             => pubs'[k].data.ptype \notin {"Sync", "NAK"}]_vars

\* C33 witness: a call read a Sync chunk, which decode_packet marks done, and went
\* on to pull a message from the bus without an Ack or a publish
C33_Witness ==
    /\ status = "running"
    /\ Len(log) >= 2 /\ log[1].ev = "read" /\ log[1].chunk.ptype = "Sync"
    /\ log[2].ev = "pull"
    /\ pubs = <<>>
    /\ \A k \in 1..Len(wire) : wire[k].by # "send_ack"

----------------------------------------------------------------------------
\* Claims about a send into a tx buffer that fills up

\* C34 (specification SpecTx): the tx buffer holds whole packets only: every chunk
\* in it that is not the last chunk of its packet's serialization has the next
\* chunk of the same packet right behind it (the chunks hidio_tx_bytes has taken
\* from the head aside).
C34_OnlyWholePackets ==
    \A i \in 1..Len(tx_bytebuf) :
        tx_bytebuf[i].ix < Len(serialize_buffer(tx_bytebuf[i].pk))
        => /\ i < Len(tx_bytebuf)
           /\ tx_bytebuf[i + 1].pk = tx_bytebuf[i].pk
           /\ tx_bytebuf[i + 1].ix = tx_bytebuf[i].ix + 1

----------------------------------------------------------------------------
\* Claims about the Sender and the receiver the controller owns

\* C35 (specification SpecOwn): as long as the controller exists the channel has a
\* Sender and a receiver and is not closed, whatever the other holders of the
\* Mailbox clone or drop; no process() call reports Closed from try_recv(), and a
\* call that publishes does so on a channel with a receiver and does not end on
\* the publish.
C35_SenderAndReceiverWhileController ==
    [][/\ status = "running" => (SenderCount >= 1 /\ HasReceiver /\ ~closed)
       /\ status' = "running" => (SenderCount' >= 1 /\ HasReceiver' /\ ~closed')
       /\ \A k \in 1..Len(log') : log'[k].ev # "closed"
       /\ pubs' # <<>> => (HasReceiver /\ status' \in {"running", "broken_pipe", "io_error"})]_vars

\* C35 witness: every Mailbox outside the controller is dropped and nobody else is
\* subscribed, and the controller has published a packet and runs on
C35_Witness ==
    /\ status = "running"
    /\ senders = 0
    /\ ~api.on /\ aw.pc # "waiting"
    /\ pubs # <<>>
    /\ ~closed

====
